---- MODULE Spec2Model ----
(***************************************************************************)
(* Model of the WalkingPad BLE manager (src/src/manager.ts), its           *)
(* connection state machine (src/src/state-machine.ts) and the transport   *)
(* calls it awaits (src/src/transport.ts).                                 *)
(*                                                                         *)
(* JavaScript runs one synchronous block at a time; a block ends at an     *)
(* await.  Every action below is one such block of one async call: it is   *)
(* enabled when the promise the call awaits has settled, and it runs up to *)
(* the next await.  The BLE stack settles its promises in any order and    *)
(* with either outcome.                                                    *)
(***************************************************************************)
EXTENDS Integers, Sequences, FiniteSets, TLC

\* ------------------------------------------------------------------ bounds
MaxCalls == 2      \* lifecycle calls (connect / reconnect / disconnect / peer-disconnect cleanup)
MaxCmds  == 2      \* start / stop / setSpeed calls
MaxObs   == 2      \* observers offered to the stand-alone state machine
MaxSteps == 3      \* transition() calls made on the stand-alone state machine

\* call slots: MaxCalls calls of any kind, and one more that only SpecStale uses
Calls == 1..(MaxCalls + 1)
Cmds  == 1..MaxCmds

ConnectionStates == {"disconnected", "connecting", "connected", "error"}

\* ---------------------------------------------------------- state machine
VALID_TRANSITIONS_loose ==
  [s \in ConnectionStates |->
     CASE s = "disconnected" -> {"connecting", "connected"}
       [] s = "connecting"   -> {"connected", "error", "disconnected"}
       [] s = "connected"    -> {"disconnected", "error"}
       [] s = "error"        -> {"disconnected", "connecting"}]

VALID_TRANSITIONS ==
  [s \in ConnectionStates |->
     CASE s = "disconnected" -> {"connecting"}
       [] s = "connecting"   -> {"connected", "error", "disconnected"}
       [] s = "connected"    -> {"disconnected"}
       [] s = "error"        -> {"disconnected", "connecting"}]

canTransition(s, to) == to \in VALID_TRANSITIONS[s]

VARIABLES
  m,          \* the manager's closure variables, the events it emitted (their number
              \* and the latest connectionStateChange), and the BLE side
  calls,      \* lifecycle calls: kind, position, abort signal, result
  cws,        \* connectWithSession task of each connect/reconnect call
  cmds,       \* command calls
  lock,       \* the two promise-chain mutexes
  hist,       \* observation history: request order, entry order, writes, and the
              \* latest 'state' event
  sm,         \* a stand-alone state machine driven directly (state-machine.ts)
  codec,      \* the latest setSpeed on a connected manager: codec, argument, outcome
  pm,         \* a poll manager driven directly (poll-manager.ts)
  th,         \* a function wrapped by throttleAsync, and the clock (throttle.ts)
  et,         \* an EventTarget made by toEventTarget, and its emitter
  packet,     \* the latest call of a StandardProtocol command builder and what it returned
  disc,       \* the latest discoverWalkingPad: the services found and the result
  ftms        \* the latest FTMSProtocol.parseStatus: the packet and the state returned

vars == <<m, calls, cws, cmds, lock, hist, sm, codec, pm, th, et, packet, disc, ftms>>

\* ------------------------------------------------ manager: pure helpers
\* connectionStateChange is emitted by the observer registered at manager.ts:271,
\* synchronously inside transition().
transition_stale(mm, to) ==
  [mm EXCEPT !.state = to,
             !.events = [n |-> @.n + 1, from |-> to, to |-> to]]

transition(mm, to) ==
  [mm EXCEPT !.state = to,
             !.events = [n |-> @.n + 1, from |-> mm.state, to |-> to]]

transitionState(mm, to) ==
  IF canTransition(mm.state, to) THEN transition(mm, to) ELSE mm

emitError(mm) == [mm EXCEPT !.errors = @ + 1]

\* cleanupResources up to its await of session.disconnect(): the stored thunks
\* run (each removes the listener it was returned for) and, when a session is
\* held, its disconnect thunk is called.
cleanupBegin(mm) ==
  LET a == [mm EXCEPT
              !.polling = 0,
              !.notifyListeners = @ \ {mm.stopNotify},
              !.stopNotify = 0,
              !.cpListeners = @ \ {mm.stopControlPointNotify},
              !.stopControlPointNotify = 0,
              !.disconnectListeners = @ \ {mm.stopDisconnectListener},
              !.stopDisconnectListener = 0]
  IN IF mm.session # 0
       THEN [a EXCEPT !.disconnectCalled = @ \cup {mm.session}]
       ELSE [a EXCEPT !.protocolName = "none"]

cleanupEnd_silent(mm, ok) ==
  [mm EXCEPT !.session = 0, !.protocolName = "none"]

\* cleanupResources after session.disconnect() settled (ok = it resolved).
cleanupEnd(mm, ok) ==
  LET a == IF ok THEN mm ELSE emitError(mm)
  IN [a EXCEPT !.session = 0, !.protocolName = "none"]

\* acquire*Lock: the caller chains a new promise behind the current tail and
\* awaits the old tail.  Promises are named by the call that created them; 0 is
\* the initially resolved promise.
acquireConnectionLock_noChain(l, c) == l
acquireConnectionLock(l, c) == [l EXCEPT !.conn = c]
releaseConnectionLock_never(l, c) == l
releaseConnectionLock(l, c) == [l EXCEPT !.connResolved = @ \cup {c}]
acquireCommandLock_noChain(l, k) == l
acquireCommandLock(l, k)    == [l EXCEPT !.cmd = k]
releaseCommandLock_never(l, k) == l
releaseCommandLock(l, k)    == [l EXCEPT !.cmdResolved = @ \cup {k}]

detectProtocol(stype) == IF stype = "standard" THEN "standard" ELSE "ftms"

\* ------------------------------------------------------------------- Init
SessionTypes == {"standard", "ftms", "ftmsCP"}   \* ftmsCP: FTMS with a control-point characteristic

IdleCall == [kind |-> "none", pc |-> "idle", sig |-> "none", prev |-> 0,
             got |-> "none", err |-> "none", res |-> "pending"]
IdleCws  == [pc |-> "none", stype |-> "none"]
IdleCmd  == [pc |-> "idle", prev |-> 0, sess |-> 0, seen |-> 0, changed |-> FALSE,
             res |-> "pending"]

MgrInit ==
  [state |-> "disconnected", session |-> 0, protocolName |-> "none",
   stopNotify |-> 0, stopControlPointNotify |-> 0, stopDisconnectListener |-> 0,
   polling |-> 0, events |-> [n |-> 0, from |-> "none", to |-> "none"], errors |-> 0,
   notifyListeners |-> {}, cpListeners |-> {}, disconnectListeners |-> {},
   disconnectCalled |-> {},
   adapterReconnect |-> TRUE]    \* whether the adapter has a reconnect method

\* callbacks is a JavaScript Set: it keeps, and is iterated in, insertion order
SMInit == [state |-> "disconnected", callbacks |-> << >>, steps |-> 0,
           to |-> "none", threw |-> FALSE, notified |-> << >>, logged |-> 0]

\* the closure of createPollManager: pollTimer and sessionId, the intervals that
\* are armed, and of every run started its captured token, its codec, its
\* consecutiveErrors, and the numbers of writes it issued, of writes still
\* pending, of writes that resolved, and of onError calls its handlers made; and,
\* in mgr, the same counters for the runs of the manager's own poll manager
\* (a run is named after the call whose connectWithSession started it)
IdlePoll == [consecutiveErrors |-> 0, issued |-> 0, pending |-> 0, errors |-> 0]

PollInit == [pollTimer |-> 0, sessionId |-> 0, timers |-> {}, runs |-> << >>,
             stops |-> 0, warned |-> 0,
             mgr |-> [c \in Calls |-> IdlePoll]]

\* no 'state' event was emitted yet
NoStateEvent == [sess |-> 0, stopNotify |-> 0, session |-> 0, state |-> "none"]

\* throttleAsync(fn, intervalMs): the closure right after the call, the clock
\* (Date.now() is at least intervalMs), the times of the calls made and the
\* invocations of fn (which call's arguments, and when)
intervalMs == 3

ThrottleInit == [now |-> intervalMs, lastCallTime |-> 0, pendingCall |-> 0,
                 timeoutId |-> FALSE, due |-> 0, calls |-> << >>,
                 invocations |-> << >>]

\* toEventTarget(emitter): the adapter right after the call.  trackedListeners and
\* subscriptions are the adapter's maps, target is the listener list of the
\* EventTarget itself (a listener is registered once per capture flag), emitter
\* is the number of callbacks the upstream emitter holds per channel
EventChannels == {"state", "error"}
EventListeners == {1, 2}
NullListener == 0

EventTargetInit == [trackedListeners |-> [t \in EventChannels |-> {}],
                    subscriptions    |-> [t \in EventChannels |-> FALSE],
                    target           |-> [t \in EventChannels |-> {}],
                    emitter          |-> [t \in EventChannels |-> 0]]

\* no builder of StandardProtocol called yet
PacketInit == [cmd |-> "none", kmh |-> [kind |-> "none", x |-> 0],
               threw |-> FALSE, bytes |-> << >>]

\* discoverWalkingPad not called yet
NoChars == [writeChar |-> "none", notifyChar |-> "none", controlPointChar |-> "none"]
DiscInit == [services |-> << >>, result |-> NoChars, threw |-> FALSE]

\* createDefaultState(), with the speed in units of 1/FTMS_SPEED_SCALE km/h
DefaultState == [state |-> 0, speed |-> 0, mode |-> 0, isRunning |-> FALSE]

\* FTMSProtocol.parseStatus not called yet
FtmsInit == [packet |-> [flags |-> {}, length |-> 0, speed |-> 0],
             state |-> DefaultState, parsed |-> FALSE]

CodecInit == [protocolName |-> "none", kmh |-> [kind |-> "none", x |-> 0],
              res |-> "none", written |-> << >>]

Init ==
  /\ \E r \in BOOLEAN : m = [MgrInit EXCEPT !.adapterReconnect = r]
  /\ calls = [c \in Calls |-> IdleCall]
  /\ cws = [c \in Calls |-> IdleCws]
  /\ cmds = [k \in Cmds |-> IdleCmd]
  /\ lock = [conn |-> 0, connResolved |-> {0}, cmd |-> 0, cmdResolved |-> {0}]
  /\ hist = [req |-> << >>, enter |-> << >>, cmdReq |-> << >>, cmdEnter |-> << >>,
             writes |-> << >>, stateEvent |-> NoStateEvent]
  /\ sm = SMInit
  /\ codec = CodecInit
  /\ pm = PollInit
  /\ th = ThrottleInit
  /\ et = EventTargetInit
  /\ packet = PacketInit
  /\ disc = DiscInit
  /\ ftms = FtmsInit

\* calls are numbered in the order in which they are made
NextCallId == Cardinality({c \in Calls : calls[c].kind # "none"}) + 1
NextCmdId  == Cardinality({k \in Cmds : cmds[k].pc # "idle"}) + 1

\* the caller requests the connection mutex (acquireConnectionLock, up to its await)
Request(c, kind, sg) ==
  /\ calls' = [calls EXCEPT ![c] = [IdleCall EXCEPT !.kind = kind, !.sig = sg,
                                      !.pc = "waitLock", !.prev = lock.conn]]
  /\ lock' = acquireConnectionLock(lock, c)
  /\ hist' = [hist EXCEPT !.req = Append(@, c)]

\* a call settles without ever requesting the mutex
SettleEarly(c, kind, sg, res) ==
  /\ calls' = [calls EXCEPT ![c] = [IdleCall EXCEPT !.kind = kind,
                                      !.pc = "done", !.res = res]]
  /\ UNCHANGED <<lock, hist>>

\* the finally block: releaseLock(), then the call settles.  Of the call's locals
\* only what it observed is kept: whether the adapter returned a session, and
\* what its catch block caught.
Finish_abortKeepsLock(c, res) ==
  /\ calls' = [calls EXCEPT ![c] = [IdleCall EXCEPT !.kind = calls[c].kind,
                                                    !.got = calls[c].got,
                                                    !.err = calls[c].err,
                                                    !.pc = "done", !.res = res]]
  /\ lock' = IF res = "aborted" THEN lock ELSE releaseConnectionLock(lock, c)

Finish(c, res) ==
  /\ calls' = [calls EXCEPT ![c] = [IdleCall EXCEPT !.kind = calls[c].kind,
                                                    !.got = calls[c].got,
                                                    !.err = calls[c].err,
                                                    !.pc = "done", !.res = res]]
  /\ lock' = releaseConnectionLock(lock, c)

Entered(c) == hist' = [hist EXCEPT !.enter = Append(@, c)]

\* a caller-side catch block starts: cleanupResources up to its await
Catch(c, e) ==
  /\ m' = cleanupBegin(m)
  /\ calls' = [calls EXCEPT ![c].err = e,
                            ![c].pc = IF m.session # 0 THEN "catchClean" ELSE "catchCleaned"]

\* ---------------------------------------------------------------- connect
\* connect(options): validation, the pre-lock abort check, the lock request
Connect(c, sg, valid) ==
  /\ c = NextCallId /\ c <= MaxCalls
  /\ IF ~valid THEN SettleEarly(c, "connect", sg, "rangeError")
     ELSE IF sg = "aborted" THEN SettleEarly(c, "connect", sg, "aborted")
     ELSE Request(c, "connect", sg)
  /\ UNCHANGED <<m, cws, cmds, sm, codec, pm, th, et, packet, disc, ftms>>

\* one more connect(), called without a signal and with a valid poll interval
ConnectAgain(c) ==
  /\ c = NextCallId /\ c \in Calls
  /\ Request(c, "connect", "none")
  /\ UNCHANGED <<m, cws, cmds, sm, codec, pm, th, et, packet, disc, ftms>>

\* connect resumes with the lock: abort check, cleanup of a live session, or connecting
ConnectEnter(c) ==
  /\ calls[c].kind = "connect" /\ calls[c].pc = "waitLock"
  /\ calls[c].prev \in lock.connResolved
  /\ Entered(c)
  /\ IF calls[c].sig = "aborted"
       THEN Finish(c, "aborted") /\ UNCHANGED m
     ELSE IF m.state \in {"connected", "connecting"}
       THEN /\ m' = cleanupBegin(m)
            /\ calls' = [calls EXCEPT ![c].pc =
                           IF m.session # 0 THEN "preClean" ELSE "preCleaned"]
            /\ UNCHANGED lock
     ELSE /\ m' = transitionState(m, "connecting")
          /\ calls' = [calls EXCEPT ![c].pc = "awaitAdapter"]
          /\ UNCHANGED lock
  /\ UNCHANGED <<cws, cmds, sm, codec, pm, th, et, packet, disc, ftms>>

\* session.disconnect() of cleanupSession settles; the rest of cleanupResources runs
ConnectPreCleanSettle(c, ok) ==
  /\ calls[c].pc = "preClean"
  /\ m' = cleanupEnd(m, ok)
  /\ calls' = [calls EXCEPT ![c].pc = "preCleaned"]
  /\ UNCHANGED <<cws, cmds, lock, hist, sm, codec, pm, th, et, packet, disc, ftms>>

\* cleanupResources returned to cleanupSession: -> disconnected
ConnectPreCleaned(c) ==
  /\ calls[c].pc = "preCleaned"
  /\ m' = transitionState(m, "disconnected")
  /\ calls' = [calls EXCEPT ![c].pc = "preDone"]
  /\ UNCHANGED <<cws, cmds, lock, hist, sm, codec, pm, th, et, packet, disc, ftms>>

\* cleanupSession returned to connect: -> connecting, adapter.connect() is called
ConnectStart(c) ==
  /\ calls[c].pc = "preDone"
  /\ m' = transitionState(m, "connecting")
  /\ calls' = [calls EXCEPT ![c].pc = "awaitAdapter"]
  /\ UNCHANGED <<cws, cmds, lock, hist, sm, codec, pm, th, et, packet, disc, ftms>>

\* ------------------------------------------ adapter call and abort race
\* adapter.connect() / adapter.reconnect() settles before the signal fired
\* (withAbortSignal lets the adapter's outcome through)
AdapterSettle(c, out) ==
  /\ calls[c].pc = "awaitAdapter" /\ calls[c].sig # "aborted"
  /\ out = "null" => calls[c].kind = "reconnect"
  /\ IF out = "fail"
       THEN Catch(c, "error")
       ELSE /\ calls' = [calls EXCEPT ![c].pc = "adapterReturned", ![c].got = out]
            /\ UNCHANGED m
  /\ UNCHANGED <<cws, cmds, lock, hist, sm, codec, pm, th, et, packet, disc, ftms>>

\* the signal fired while connect/reconnect awaits withAbortSignal(...): the race
\* rejects, whatever the raced promise does later
AbortWins(c) ==
  /\ calls[c].pc \in {"awaitAdapter", "awaitCws"} /\ calls[c].sig = "aborted"
  /\ Catch(c, "abort")
  /\ UNCHANGED <<cws, cmds, lock, hist, sm, codec, pm, th, et, packet, disc, ftms>>

\* the caller's AbortSignal fires
Abort(c) ==
  /\ calls[c].sig = "live" /\ calls[c].pc \notin {"idle", "done"}
  /\ calls' = [calls EXCEPT ![c].sig = "aborted"]
  /\ UNCHANGED <<m, cws, cmds, lock, hist, sm, codec, pm, th, et, packet, disc, ftms>>

\* connect/reconnect resumes after the adapter returned: abort check, the null
\* result of reconnect, else connectWithSession up to its first await
AdapterReturned(c, onDisconnect) ==
  /\ calls[c].pc = "adapterReturned"
  /\ IF calls[c].sig = "aborted"
       THEN Catch(c, "abort") /\ UNCHANGED <<cws, lock>>
     ELSE IF calls[c].got = "null"
       THEN /\ m' = transitionState(m, "disconnected")
            /\ Finish(c, "false")
            /\ UNCHANGED cws
     ELSE /\ m' = IF onDisconnect
                    THEN [m EXCEPT !.stopDisconnectListener = c,
                                   !.disconnectListeners = @ \cup {c}]
                    ELSE m
          /\ cws' = [cws EXCEPT ![c].pc = "discover"]
          /\ calls' = [calls EXCEPT ![c].pc = "awaitCws"]
          /\ UNCHANGED lock
  /\ UNCHANGED <<cmds, hist, sm, codec, pm, th, et, packet, disc, ftms>>

\* ----------------------------------------------------- connectWithSession
\* the tail of connectWithSession: polling for the standard codec, -> connected
cwsComplete(mm, c, stype) ==
  transitionState(IF detectProtocol(stype) = "standard"
                    THEN [mm EXCEPT !.polling = c] ELSE mm,
                  "connected")

\* the catch block of connectWithSession: cleanupResources up to its await
CwsCatch(c) ==
  /\ m' = cleanupBegin(m)
  /\ cws' = [cws EXCEPT ![c] = [IdleCws EXCEPT !.pc =
                               IF m.session # 0 THEN "cleanup" ELSE "failed"]]

\* transport.discoverWalkingPad settles: a session of some type, the required
\* characteristics missing (discovery disconnects the session), or a GATT error
CwsDiscover(c, out) ==
  /\ cws[c].pc = "discover"
  /\ IF out \in SessionTypes
       THEN /\ m' = [m EXCEPT !.session = c, !.protocolName = detectProtocol(out)]
            /\ cws' = [cws EXCEPT ![c].pc = "notify", ![c].stype = out]
     ELSE IF out = "noChars"
       THEN /\ m' = [m EXCEPT !.disconnectCalled = @ \cup {c}]
            /\ cws' = [cws EXCEPT ![c] = [IdleCws EXCEPT !.pc = "failed"]]
     ELSE /\ cws' = [cws EXCEPT ![c] = [IdleCws EXCEPT !.pc = "failed"]]
          /\ UNCHANGED m
  /\ UNCHANGED <<calls, cmds, lock, hist, sm, codec, pm, th, et, packet, disc, ftms>>

needsRequestControl_never(stype) == FALSE

\* s.controlPointChar && currentProtocol.cmdRequestControl().byteLength > 0
needsRequestControl(stype) == stype = "ftmsCP"

\* startNotifications(notifyChar) settles
CwsNotify(c, ok) ==
  /\ cws[c].pc = "notify"
  /\ IF ~ok THEN CwsCatch(c)
     ELSE LET m1 == [m EXCEPT !.stopNotify = c, !.notifyListeners = @ \cup {c}]
          IN IF needsRequestControl(cws[c].stype)
               THEN m' = m1 /\ cws' = [cws EXCEPT ![c].pc = "cpNotify"]
               ELSE /\ m' = cwsComplete(m1, c, cws[c].stype)
                    /\ cws' = [cws EXCEPT ![c] = [IdleCws EXCEPT !.pc = "done"]]
  /\ UNCHANGED <<calls, cmds, lock, hist, sm, codec, pm, th, et, packet, disc, ftms>>

\* startNotifications(controlPointChar) settles; then the request-control write
CwsCpNotify(c, ok) ==
  /\ cws[c].pc = "cpNotify"
  /\ IF ~ok THEN CwsCatch(c)
     ELSE /\ m' = [m EXCEPT !.stopControlPointNotify = c, !.cpListeners = @ \cup {c}]
          /\ cws' = [cws EXCEPT ![c].pc = "reqControl"]
  /\ UNCHANGED <<calls, cmds, lock, hist, sm, codec, pm, th, et, packet, disc, ftms>>

\* the request-control write settles
CwsReqControl(c, ok) ==
  /\ cws[c].pc = "reqControl"
  /\ IF ~ok THEN CwsCatch(c)
     ELSE /\ m' = cwsComplete(m, c, cws[c].stype)
          /\ cws' = [cws EXCEPT ![c] = [IdleCws EXCEPT !.pc = "done"]]
  /\ UNCHANGED <<calls, cmds, lock, hist, sm, codec, pm, th, et, packet, disc, ftms>>

\* session.disconnect() awaited by the catch block of connectWithSession settles
CwsCleanupSettle(c, ok) ==
  /\ cws[c].pc = "cleanup"
  /\ m' = cleanupEnd(m, ok)
  /\ cws' = [cws EXCEPT ![c] = [IdleCws EXCEPT !.pc = "failed"]]
  /\ UNCHANGED <<calls, cmds, lock, hist, sm, codec, pm, th, et, packet, disc, ftms>>

\* connectWithSession settled before the signal fired: the caller returns or catches
CwsSettled(c) ==
  /\ calls[c].pc = "awaitCws" /\ calls[c].sig # "aborted"
  /\ cws[c].pc \in {"done", "failed"}
  /\ IF cws[c].pc = "done"
       THEN /\ Finish(c, IF calls[c].kind = "connect" THEN "ok" ELSE "true")
            /\ UNCHANGED m
       ELSE Catch(c, "error") /\ UNCHANGED lock
  /\ UNCHANGED <<cws, cmds, hist, sm, codec, pm, th, et, packet, disc, ftms>>

\* session.disconnect() awaited by the caller's catch block settles
CatchCleanSettle(c, ok) ==
  /\ calls[c].pc = "catchClean"
  /\ m' = cleanupEnd(m, ok)
  /\ calls' = [calls EXCEPT ![c].pc = "catchCleaned"]
  /\ UNCHANGED <<cws, cmds, lock, hist, sm, codec, pm, th, et, packet, disc, ftms>>

\* the rest of the catch block: the state transition, (reconnect) the error
\* event, the rethrow through finally
CatchFinish(c) ==
  /\ calls[c].pc = "catchCleaned"
  /\ IF calls[c].err = "abort"
       THEN m' = transitionState(m, "disconnected") /\ Finish(c, "aborted")
       ELSE /\ m' = IF calls[c].kind = "reconnect"
                      THEN emitError(transitionState(m, "error"))
                      ELSE transitionState(m, "error")
            /\ Finish(c, "error")
  /\ UNCHANGED <<cws, cmds, hist, sm, codec, pm, th, et, packet, disc, ftms>>

\* -------------------------------------------------------------- reconnect
Reconnect(c, sg) ==
  /\ c = NextCallId /\ c <= MaxCalls
  /\ IF sg = "aborted" THEN SettleEarly(c, "reconnect", sg, "aborted")
     ELSE Request(c, "reconnect", sg)
  /\ UNCHANGED <<m, cws, cmds, sm, codec, pm, th, et, packet, disc, ftms>>

\* a reconnect that consults the adapter whatever the state is
ReconnectEnter_noShortcut(c) ==
  /\ calls[c].kind = "reconnect" /\ calls[c].pc = "waitLock"
  /\ calls[c].prev \in lock.connResolved
  /\ Entered(c)
  /\ IF calls[c].sig = "aborted"
       THEN Finish(c, "aborted") /\ UNCHANGED m
     ELSE IF ~m.adapterReconnect
       THEN Finish(c, "false") /\ UNCHANGED m
     ELSE /\ m' = transitionState(m, "connecting")
          /\ calls' = [calls EXCEPT ![c].pc = "awaitAdapter"]
          /\ UNCHANGED lock
  /\ UNCHANGED <<cws, cmds, sm, codec, pm, th, et, packet, disc, ftms>>

\* reconnect resumes with the lock: abort check, the early returns, or connecting
ReconnectEnter(c) ==
  /\ calls[c].kind = "reconnect" /\ calls[c].pc = "waitLock"
  /\ calls[c].prev \in lock.connResolved
  /\ Entered(c)
  /\ IF calls[c].sig = "aborted"
       THEN Finish(c, "aborted") /\ UNCHANGED m
     ELSE IF m.state \in {"connected", "connecting"}
       THEN Finish(c, "true") /\ UNCHANGED m
     ELSE IF ~m.adapterReconnect
       THEN Finish(c, "false") /\ UNCHANGED m
     ELSE /\ m' = transitionState(m, "connecting")
          /\ calls' = [calls EXCEPT ![c].pc = "awaitAdapter"]
          /\ UNCHANGED lock
  /\ UNCHANGED <<cws, cmds, sm, codec, pm, th, et, packet, disc, ftms>>

\* ------------------------------------- disconnect and peer-disconnect cleanup
Disconnect(c) ==
  /\ c = NextCallId /\ c <= MaxCalls
  /\ Request(c, "disconnect", "none")
  /\ UNCHANGED <<m, cws, cmds, sm, codec, pm, th, et, packet, disc, ftms>>

\* the BLE stack reports the disconnect of session k to the listener registered
\* by connectWithSession; in state connected the listener requests the mutex,
\* in any other state it returns at once
PeerDisconnect(c, k) ==
  /\ c = NextCallId /\ c <= MaxCalls
  /\ k \in m.disconnectListeners
  /\ IF m.state = "connected"
       THEN Request(c, "peer", "none")
       ELSE SettleEarly(c, "peer", "none", "ignored")
  /\ UNCHANGED <<m, cws, cmds, sm, codec, pm, th, et, packet, disc, ftms>>

\* disconnect() or the peer-disconnect cleanup resumes with the lock
DisconnectEnter(c) ==
  /\ calls[c].kind \in {"disconnect", "peer"} /\ calls[c].pc = "waitLock"
  /\ calls[c].prev \in lock.connResolved
  /\ Entered(c)
  /\ IF m.state = "disconnected"
       THEN Finish(c, "ok") /\ UNCHANGED m
       ELSE /\ m' = cleanupBegin(m)
            /\ calls' = [calls EXCEPT ![c].pc =
                           IF m.session # 0 THEN "discClean" ELSE "discCleaned"]
            /\ UNCHANGED lock
  /\ UNCHANGED <<cws, cmds, sm, codec, pm, th, et, packet, disc, ftms>>

DisconnectCleanSettle(c, ok) ==
  /\ calls[c].pc = "discClean"
  /\ m' = cleanupEnd(m, ok)
  /\ calls' = [calls EXCEPT ![c].pc = "discCleaned",
                            ![c].err = IF ok THEN @ ELSE "disconnectRejected"]
  /\ UNCHANGED <<cws, cmds, lock, hist, sm, codec, pm, th, et, packet, disc, ftms>>

\* cleanupSession returns: -> disconnected, release
DisconnectFinish(c) ==
  /\ calls[c].pc = "discCleaned"
  /\ m' = transitionState(m, "disconnected")
  /\ Finish(c, "ok")
  /\ UNCHANGED <<cws, cmds, hist, sm, codec, pm, th, et, packet, disc, ftms>>

\* --------------------------------------------------------------- commands
notConnected_handlesOnly(mm) ==
  mm.session = 0 \/ mm.protocolName = "none"

\* the check the command makes under the lock
notConnected(mm) ==
  mm.state # "connected" \/ mm.session = 0 \/ mm.protocolName = "none"

\* what a command could observe of the manager: getConnectionState() and the handles
Snapshot(k) == [cmd |-> k, state |-> m.state, session |-> m.session,
                protocolName |-> m.protocolName]

\* acquireCommandLock's `await previousLock`: the command resumes once the holder
\* it queued behind has released the command mutex
commandLockGranted_alsoConn(l, cm) ==
  cm.prev \in l.cmdResolved /\ l.conn \in l.connResolved

commandLockGranted(l, cm) == cm.prev \in l.cmdResolved

\* start() / stop() / setSpeed(): ensureConnectedAndSend up to the await of the lock
Command(k) ==
  /\ k = NextCmdId /\ k \in Cmds
  /\ cmds' = [cmds EXCEPT ![k] = [IdleCmd EXCEPT !.pc = "waitLock", !.prev = lock.cmd]]
  /\ lock' = acquireCommandLock(lock, k)
  /\ hist' = [hist EXCEPT !.cmdReq = Append(@, Snapshot(k))]
  /\ UNCHANGED <<m, calls, cws, sm, codec, pm, th, et, packet, disc, ftms>>

\* the command resumes with the lock: the state check, then sendCommand builds the
\* payload (valid = the codec accepts the argument; cmdSetSpeed throws
\* SpeedOutOfRangeError otherwise) and issues the write
CommandEnter(k, valid) ==
  /\ cmds[k].pc = "waitLock" /\ commandLockGranted(lock, cmds[k])
  /\ IF notConnected(m)
       THEN /\ cmds' = [cmds EXCEPT ![k].pc = "done", ![k].res = "notConnected"]
            /\ lock' = releaseCommandLock(lock, k)
            /\ hist' = [hist EXCEPT !.cmdEnter = Append(@, Snapshot(k))]
     ELSE IF ~valid
       THEN /\ cmds' = [cmds EXCEPT ![k].pc = "done", ![k].res = "speedOutOfRange"]
            /\ lock' = releaseCommandLock(lock, k)
            /\ hist' = [hist EXCEPT !.cmdEnter = Append(@, Snapshot(k))]
       ELSE /\ cmds' = [cmds EXCEPT ![k].pc = "writing", ![k].sess = m.session,
                                    ![k].seen = m.events.n]
            /\ hist' = [hist EXCEPT !.cmdEnter = Append(@, Snapshot(k)),
                                    !.writes = Append(@, [cmd |-> k, sess |-> m.session])]
            /\ UNCHANGED lock
  /\ UNCHANGED <<m, calls, cws, sm, codec, pm, th, et, packet, disc, ftms>>

\* the result of the command once its write settled (ok = the write resolved)
commandResult(mm, ok) ==
  IF ~ok THEN "writeError"
  ELSE IF mm.state # "connected" THEN "notConnected" ELSE "ok"

\* the write settles (resolves, rejects or times out); the post-write check; release.
\* changed records whether a connectionStateChange was emitted during the write.
CommandSettle(k, ok) ==
  /\ cmds[k].pc = "writing"
  /\ cmds' = [cmds EXCEPT ![k] = [IdleCmd EXCEPT !.pc = "done",
                                                 !.changed = (m.events.n # cmds[k].seen),
                                                 !.res = commandResult(m, ok)]]
  /\ lock' = releaseCommandLock(lock, k)
  /\ UNCHANGED <<m, calls, cws, hist, sm, codec, pm, th, et, packet, disc, ftms>>

\* withTimeout: a timer is armed for as long as the wrapped write is pending
withTimeout_noTimer(c) == FALSE

withTimeout(c) == c.pc = "writing"

\* the timer of withTimeout fires before the write settled: the write is abandoned
\* with TimeoutError, which leaves ensureConnectedAndSend through its finally block
CommandTimeout(k) ==
  /\ withTimeout(cmds[k])
  /\ cmds' = [cmds EXCEPT ![k] = [IdleCmd EXCEPT !.pc = "done",
                                                 !.changed = (m.events.n # cmds[k].seen),
                                                 !.res = "timeout"]]
  /\ lock' = releaseCommandLock(lock, k)
  /\ UNCHANGED <<m, calls, cws, hist, sm, codec, pm, th, et, packet, disc, ftms>>

\* getSessionInfo(): null (written NoInfo) unless a codec name is held and the
\* state is connected.  serviceUuids is assigned and cleared together with
\* protocolName and is not kept apart from it.
NoInfo == [protocol |-> "none"]

getSessionInfo(mm) ==
  IF mm.protocolName = "none" \/ mm.state # "connected"
    THEN NoInfo
    ELSE [protocol |-> mm.protocolName]

\* the notify characteristic of session k reports a value change: the listener
\* that startNotifications registered, if it is still registered, hands the
\* bytes to onNotification, which emits a 'state' event (recorded with what the
\* manager held at that moment)
NotifyEvent(k) ==
  /\ k \in m.notifyListeners
  /\ hist' = [hist EXCEPT !.stateEvent = [sess |-> k, stopNotify |-> m.stopNotify,
                                          session |-> m.session, state |-> m.state]]
  /\ UNCHANGED <<m, calls, cws, cmds, lock, sm, codec, pm, th, et, packet, disc, ftms>>

\* ------------------------------------------------------------------- Next
Signals == {"none", "live", "aborted"}

Next ==
  \/ \E c \in Calls, sg \in Signals, valid \in BOOLEAN : Connect(c, sg, valid)
  \/ \E c \in Calls : ConnectEnter(c)
  \/ \E c \in Calls, ok \in BOOLEAN : ConnectPreCleanSettle(c, ok)
  \/ \E c \in Calls : ConnectPreCleaned(c)
  \/ \E c \in Calls : ConnectStart(c)
  \/ \E c \in Calls, out \in {"session", "null", "fail"} : AdapterSettle(c, out)
  \/ \E c \in Calls : AbortWins(c)
  \/ \E c \in Calls : Abort(c)
  \/ \E c \in Calls, od \in BOOLEAN : AdapterReturned(c, od)
  \/ \E c \in Calls, out \in SessionTypes \cup {"noChars", "fail"} : CwsDiscover(c, out)
  \/ \E c \in Calls, ok \in BOOLEAN : CwsNotify(c, ok)
  \/ \E c \in Calls, ok \in BOOLEAN : CwsCpNotify(c, ok)
  \/ \E c \in Calls, ok \in BOOLEAN : CwsReqControl(c, ok)
  \/ \E c \in Calls, ok \in BOOLEAN : CwsCleanupSettle(c, ok)
  \/ \E c \in Calls : CwsSettled(c)
  \/ \E c \in Calls, ok \in BOOLEAN : CatchCleanSettle(c, ok)
  \/ \E c \in Calls : CatchFinish(c)
  \/ \E c \in Calls, sg \in Signals : Reconnect(c, sg)
  \/ \E c \in Calls : ReconnectEnter(c)
  \/ \E c \in Calls : Disconnect(c)
  \/ \E c \in Calls, k \in Calls : PeerDisconnect(c, k)
  \/ \E c \in Calls : DisconnectEnter(c)
  \/ \E c \in Calls, ok \in BOOLEAN : DisconnectCleanSettle(c, ok)
  \/ \E c \in Calls : DisconnectFinish(c)

\* every lifecycle interleaving, abort signals included; no commands are issued
Spec == Init /\ [][Next]_vars

\* commands against a manager whose lifecycle calls are made without an abort
\* signal (the caller's catch block then never finds a session to disconnect:
\* CatchCleanSettle cannot fire and is left out)
NextCmd ==
  \/ \E c \in Calls : Connect(c, "none", TRUE)
  \/ \E c \in Calls : ConnectEnter(c)
  \/ \E c \in Calls, ok \in BOOLEAN : ConnectPreCleanSettle(c, ok)
  \/ \E c \in Calls : ConnectPreCleaned(c)
  \/ \E c \in Calls : ConnectStart(c)
  \/ \E c \in Calls, out \in {"session", "null", "fail"} : AdapterSettle(c, out)
  \/ \E c \in Calls, od \in BOOLEAN : AdapterReturned(c, od)
  \/ \E c \in Calls, out \in SessionTypes \cup {"noChars", "fail"} : CwsDiscover(c, out)
  \/ \E c \in Calls, ok \in BOOLEAN : CwsNotify(c, ok)
  \/ \E c \in Calls, ok \in BOOLEAN : CwsCpNotify(c, ok)
  \/ \E c \in Calls, ok \in BOOLEAN : CwsReqControl(c, ok)
  \/ \E c \in Calls, ok \in BOOLEAN : CwsCleanupSettle(c, ok)
  \/ \E c \in Calls : CwsSettled(c)
  \/ \E c \in Calls : CatchFinish(c)
  \/ \E c \in Calls : Reconnect(c, "none")
  \/ \E c \in Calls : ReconnectEnter(c)
  \/ \E c \in Calls : Disconnect(c)
  \/ \E c \in Calls, k \in Calls : PeerDisconnect(c, k)
  \/ \E c \in Calls : DisconnectEnter(c)
  \/ \E c \in Calls, ok \in BOOLEAN : DisconnectCleanSettle(c, ok)
  \/ \E c \in Calls : DisconnectFinish(c)
  \/ \E k \in Cmds : Command(k)
  \/ \E k \in Cmds, valid \in BOOLEAN : CommandEnter(k, valid)
  \/ \E k \in Cmds, ok \in BOOLEAN : CommandSettle(k, ok)

SpecCmd == Init /\ [][NextCmd]_vars

\* commands whose BLE write may stay pending for ever, against one connect() and
\* disconnect() calls, made without a signal (the connect then never finds a
\* session to tear down first)
NextCmdLive ==
  \/ Connect(1, "none", TRUE)
  \/ \E c \in Calls : ConnectEnter(c)
  \/ \E c \in Calls, out \in {"session", "null", "fail"} : AdapterSettle(c, out)
  \/ \E c \in Calls, od \in BOOLEAN : AdapterReturned(c, od)
  \/ \E c \in Calls, out \in SessionTypes \cup {"noChars", "fail"} : CwsDiscover(c, out)
  \/ \E c \in Calls, ok \in BOOLEAN : CwsNotify(c, ok)
  \/ \E c \in Calls, ok \in BOOLEAN : CwsCpNotify(c, ok)
  \/ \E c \in Calls, ok \in BOOLEAN : CwsReqControl(c, ok)
  \/ \E c \in Calls, ok \in BOOLEAN : CwsCleanupSettle(c, ok)
  \/ \E c \in Calls : CwsSettled(c)
  \/ \E c \in Calls : CatchFinish(c)
  \/ \E c \in Calls : Disconnect(c)
  \/ \E c \in Calls : DisconnectEnter(c)
  \/ \E c \in Calls, ok \in BOOLEAN : DisconnectCleanSettle(c, ok)
  \/ \E c \in Calls : DisconnectFinish(c)
  \/ \E k \in Cmds : Command(k)
  \/ \E k \in Cmds, valid \in BOOLEAN : CommandEnter(k, valid)
  \/ \E k \in Cmds, ok \in BOOLEAN : CommandSettle(k, ok)
  \/ \E k \in Cmds : CommandTimeout(k)

\* what the event loop guarantees a command: it resumes once the lock it awaits
\* is released, and an armed timer fires.  Nothing is assumed of the BLE stack.
CmdProgress ==
  \/ \E k \in Cmds, valid \in BOOLEAN : CommandEnter(k, valid)
  \/ \E k \in Cmds : CommandTimeout(k)

SpecCmdLive == Init /\ [][NextCmdLive]_vars /\ WF_vars(CmdProgress)

\* lifecycle calls made without an abort signal, no commands
NextLife ==
  \/ \E c \in Calls : Connect(c, "none", TRUE)
  \/ \E c \in Calls : ConnectEnter(c)
  \/ \E c \in Calls, ok \in BOOLEAN : ConnectPreCleanSettle(c, ok)
  \/ \E c \in Calls : ConnectPreCleaned(c)
  \/ \E c \in Calls : ConnectStart(c)
  \/ \E c \in Calls, out \in {"session", "null", "fail"} : AdapterSettle(c, out)
  \/ \E c \in Calls, od \in BOOLEAN : AdapterReturned(c, od)
  \/ \E c \in Calls, out \in SessionTypes \cup {"noChars", "fail"} : CwsDiscover(c, out)
  \/ \E c \in Calls, ok \in BOOLEAN : CwsNotify(c, ok)
  \/ \E c \in Calls, ok \in BOOLEAN : CwsCpNotify(c, ok)
  \/ \E c \in Calls, ok \in BOOLEAN : CwsReqControl(c, ok)
  \/ \E c \in Calls, ok \in BOOLEAN : CwsCleanupSettle(c, ok)
  \/ \E c \in Calls : CwsSettled(c)
  \/ \E c \in Calls : CatchFinish(c)
  \/ \E c \in Calls : Reconnect(c, "none")
  \/ \E c \in Calls : ReconnectEnter(c)
  \/ \E c \in Calls : Disconnect(c)
  \/ \E c \in Calls, k \in Calls : PeerDisconnect(c, k)
  \/ \E c \in Calls : DisconnectEnter(c)
  \/ \E c \in Calls, ok \in BOOLEAN : DisconnectCleanSettle(c, ok)
  \/ \E c \in Calls : DisconnectFinish(c)

\* value changes reported during lifecycle calls that are made without a signal
NextNotifyLife ==
  \/ NextLife
  \/ \E k \in Calls : NotifyEvent(k)

SpecNotifyLife == Init /\ [][NextNotifyLife]_vars

\* connect() calls only, one more than MaxCalls; the first is given a signal and
\* may be aborted while it waits for the adapter or for connectWithSession
NextStale ==
  \/ Connect(1, "live", TRUE)
  \/ \E c \in Calls : ConnectAgain(c)
  \/ \E c \in Calls : ConnectEnter(c)
  \/ \E c \in Calls, ok \in BOOLEAN : ConnectPreCleanSettle(c, ok)
  \/ \E c \in Calls : ConnectPreCleaned(c)
  \/ \E c \in Calls : ConnectStart(c)
  \/ \E c \in Calls, out \in {"session", "null", "fail"} : AdapterSettle(c, out)
  \/ \E c \in Calls : AbortWins(c)
  \/ \E c \in Calls : Abort(c)
  \/ \E c \in Calls, od \in BOOLEAN : AdapterReturned(c, od)
  \/ \E c \in Calls, out \in SessionTypes \cup {"noChars", "fail"} : CwsDiscover(c, out)
  \/ \E c \in Calls, ok \in BOOLEAN : CwsNotify(c, ok)
  \/ \E c \in Calls, ok \in BOOLEAN : CwsCpNotify(c, ok)
  \/ \E c \in Calls, ok \in BOOLEAN : CwsReqControl(c, ok)
  \/ \E c \in Calls, ok \in BOOLEAN : CwsCleanupSettle(c, ok)
  \/ \E c \in Calls : CwsSettled(c)
  \/ \E c \in Calls, ok \in BOOLEAN : CatchCleanSettle(c, ok)
  \/ \E c \in Calls : CatchFinish(c)

SpecStale == Init /\ [][NextStale]_vars

\* value changes reported around one connect(), which may be aborted, and
\* disconnect() calls
NextNotify ==
  \/ Connect(1, "live", TRUE)
  \/ \E c \in Calls : ConnectEnter(c)
  \/ \E c \in Calls, out \in {"session", "null", "fail"} : AdapterSettle(c, out)
  \/ \E c \in Calls : AbortWins(c)
  \/ \E c \in Calls : Abort(c)
  \/ \E c \in Calls, od \in BOOLEAN : AdapterReturned(c, od)
  \/ \E c \in Calls, out \in SessionTypes \cup {"noChars", "fail"} : CwsDiscover(c, out)
  \/ \E c \in Calls, ok \in BOOLEAN : CwsNotify(c, ok)
  \/ \E c \in Calls, ok \in BOOLEAN : CwsCpNotify(c, ok)
  \/ \E c \in Calls, ok \in BOOLEAN : CwsReqControl(c, ok)
  \/ \E c \in Calls, ok \in BOOLEAN : CwsCleanupSettle(c, ok)
  \/ \E c \in Calls : CwsSettled(c)
  \/ \E c \in Calls, ok \in BOOLEAN : CatchCleanSettle(c, ok)
  \/ \E c \in Calls : CatchFinish(c)
  \/ \E c \in Calls : Disconnect(c)
  \/ \E c \in Calls : DisconnectEnter(c)
  \/ \E c \in Calls, ok \in BOOLEAN : DisconnectCleanSettle(c, ok)
  \/ \E c \in Calls : DisconnectFinish(c)
  \/ \E k \in Calls : NotifyEvent(k)

SpecNotify == Init /\ [][NextNotify]_vars

\* the steps the event loop and the BLE stack take on their own: a call resumes
\* once the promise it awaits has settled, and every pending BLE call settles
Progress ==
  \/ \E c \in Calls : ConnectEnter(c)
  \/ \E c \in Calls, ok \in BOOLEAN : ConnectPreCleanSettle(c, ok)
  \/ \E c \in Calls : ConnectPreCleaned(c)
  \/ \E c \in Calls : ConnectStart(c)
  \/ \E c \in Calls, out \in {"session", "null", "fail"} : AdapterSettle(c, out)
  \/ \E c \in Calls, od \in BOOLEAN : AdapterReturned(c, od)
  \/ \E c \in Calls, out \in SessionTypes \cup {"noChars", "fail"} : CwsDiscover(c, out)
  \/ \E c \in Calls, ok \in BOOLEAN : CwsNotify(c, ok)
  \/ \E c \in Calls, ok \in BOOLEAN : CwsCpNotify(c, ok)
  \/ \E c \in Calls, ok \in BOOLEAN : CwsReqControl(c, ok)
  \/ \E c \in Calls, ok \in BOOLEAN : CwsCleanupSettle(c, ok)
  \/ \E c \in Calls : CwsSettled(c)
  \/ \E c \in Calls : CatchFinish(c)
  \/ \E c \in Calls : ReconnectEnter(c)
  \/ \E c \in Calls : DisconnectEnter(c)
  \/ \E c \in Calls, ok \in BOOLEAN : DisconnectCleanSettle(c, ok)
  \/ \E c \in Calls : DisconnectFinish(c)

\* the lifecycle under the assumption that pending BLE calls settle
SpecLive == Init /\ [][NextLife]_vars /\ WF_vars(Progress)

\* ------------------------------------- the state machine driven directly
Observers == 1..MaxObs

Range(q) == {q[i] : i \in DOMAIN q}
Remove(q, x) == SelectSeq(q, LAMBDA y : y # x)

\* the observers invoked when the loop stops at the first one that throws
FirstThrower(s, T) ==
  IF \E i \in 1..Len(s.callbacks) : s.callbacks[i] \in T
    THEN CHOOSE i \in 1..Len(s.callbacks) :
           /\ s.callbacks[i] \in T
           /\ \A j \in 1..(i - 1) : s.callbacks[j] \notin T
    ELSE Len(s.callbacks)

smTransition_stopAtThrow(s, to, T) ==
  IF to \notin VALID_TRANSITIONS[s.state]
    THEN [s EXCEPT !.steps = @ + 1, !.to = to, !.threw = TRUE,
                   !.notified = << >>, !.logged = 0]
    ELSE [s EXCEPT !.steps = @ + 1, !.to = to, !.threw = FALSE,
                   !.state = to,
                   !.notified = [i \in 1..FirstThrower(s, T) |->
                                   [obs |-> s.callbacks[i], from |-> s.state, to |-> to]],
                   !.logged = Cardinality(Range(s.callbacks) \cap T)]

\* transition(to) on machine s; the observers in T throw when invoked.
\* An invalid target throws before anything is assigned; otherwise every
\* registered callback is invoked in a try/catch that logs.
smTransition(s, to, T) ==
  IF ~canTransition(s.state, to)
    THEN [s EXCEPT !.steps = @ + 1, !.to = to, !.threw = TRUE,
                   !.notified = << >>, !.logged = 0]
    ELSE [s EXCEPT !.steps = @ + 1, !.to = to, !.threw = FALSE,
                   !.state = to,
                   !.notified = [i \in 1..Len(s.callbacks) |->
                                   [obs |-> s.callbacks[i], from |-> s.state, to |-> to]],
                   !.logged = Cardinality(Range(s.callbacks) \cap T)]

SMTransition(to, T) ==
  /\ sm.steps < MaxSteps
  /\ sm' = smTransition(sm, to, T)
  /\ UNCHANGED <<m, calls, cws, cmds, lock, hist, codec, pm, th, et, packet, disc, ftms>>

\* onTransition(callback): callbacks.add
SMOnTransition(o) ==
  /\ o \notin Range(sm.callbacks)
  /\ sm' = [sm EXCEPT !.callbacks = Append(@, o)]
  /\ UNCHANGED <<m, calls, cws, cmds, lock, hist, codec, pm, th, et, packet, disc, ftms>>

\* the thunk onTransition returned: callbacks.delete
SMUnsubscribe(o) ==
  /\ o \in Range(sm.callbacks)
  /\ sm' = [sm EXCEPT !.callbacks = Remove(@, o)]
  /\ UNCHANGED <<m, calls, cws, cmds, lock, hist, codec, pm, th, et, packet, disc, ftms>>

NextSM ==
  \/ \E to \in ConnectionStates, T \in SUBSET Observers : SMTransition(to, T)
  \/ \E o \in Observers : SMOnTransition(o)
  \/ \E o \in Observers : SMUnsubscribe(o)

SpecSM == Init /\ [][NextSM]_vars

\* ------------------------------------------------- setSpeed and the codecs
\* A JavaScript number is NaN, Infinity, -Infinity, or a finite value, held here
\* in units of 1/KmhUnit km/h: [kind |-> "finite", x |-> 5000] is 0.5 km/h.
KmhUnit == 10000
SpeedMargin == 12     \* values tried on each side of the two limits

STANDARD_PACKET_HEADER_1 == 247          \* 0xf7
STANDARD_PACKET_HEADER_2 == 162          \* 0xa2
STANDARD_PACKET_SUFFIX == 253            \* 0xfd
STANDARD_CMD_SET_SPEED_OP == 3
STANDARD_CMD_ASK_STATS_BODY == 0
STANDARD_DEFAULT_MIN_SPEED_KMH == 5000   \* 0.5
STANDARD_DEFAULT_MAX_SPEED_KMH == 60000  \* 6.0
STANDARD_SPEED_SCALE == 10
FTMS_OP_SET_TARGET_SPEED == 2
FTMS_SPEED_SCALE == 100
FTMS_DEFAULT_MIN_SPEED_KMH == 5000       \* 0.5
FTMS_DEFAULT_MAX_SPEED_KMH == 60000      \* 6.0

Finite(x) == [kind |-> "finite", x |-> x]

SpeedInputs ==
  {[kind |-> k, x |-> 0] : k \in {"NaN", "Infinity", "-Infinity"}}
    \cup {Finite(x) : x \in
            ((STANDARD_DEFAULT_MIN_SPEED_KMH - SpeedMargin)
               .. (STANDARD_DEFAULT_MIN_SPEED_KMH + SpeedMargin))
            \cup ((STANDARD_DEFAULT_MAX_SPEED_KMH - SpeedMargin)
                    .. (STANDARD_DEFAULT_MAX_SPEED_KMH + SpeedMargin))
            \cup {0 - STANDARD_DEFAULT_MAX_SPEED_KMH, 0 - 1, 0, 1,
                   3 * KmhUnit, 5 * KmhUnit + KmhUnit \div 20, 100 * KmhUnit}}

isFinite_always(v) == TRUE

\* Number.isFinite
isFinite(v) == v.kind = "finite"

\* v < b and v > b for a finite b: every comparison with NaN is false
Less(v, b) ==
  CASE v.kind = "finite"    -> v.x < b
    [] v.kind = "-Infinity" -> TRUE
    [] OTHER                -> FALSE

Greater(v, b) ==
  CASE v.kind = "finite"   -> v.x > b
    [] v.kind = "Infinity" -> TRUE
    [] OTHER               -> FALSE

\* Math.round(kmh * scale): the nearest integer, halves rounded up
MathRound(x, scale) == (2 * x * scale + KmhUnit) \div (2 * KmhUnit)

RECURSIVE Sum(_)
Sum(q) == IF q = << >> THEN 0 ELSE Head(q) + Sum(Tail(q))

createPacket_sumFromHeader1(body) ==
  <<STANDARD_PACKET_HEADER_1, STANDARD_PACKET_HEADER_2>> \o body
    \o <<(STANDARD_PACKET_HEADER_1 + STANDARD_PACKET_HEADER_2 + Sum(body)) % 256,
         STANDARD_PACKET_SUFFIX>>

\* StandardProtocol.createPacket: prefix, body, checksum of everything after the
\* first byte, suffix
createPacket(body) ==
  <<STANDARD_PACKET_HEADER_1, STANDARD_PACKET_HEADER_2>> \o body
    \o <<(STANDARD_PACKET_HEADER_2 + Sum(body)) % 256, STANDARD_PACKET_SUFFIX>>

\* cmdSetSpeed of the two codecs: throws SpeedOutOfRangeError or returns the bytes
cmdSetSpeed(p, v) ==
  IF p = "standard"
    THEN IF \/ ~isFinite(v)
            \/ Less(v, STANDARD_DEFAULT_MIN_SPEED_KMH)
            \/ Greater(v, STANDARD_DEFAULT_MAX_SPEED_KMH)
           THEN [threw |-> TRUE, bytes |-> << >>]
           ELSE [threw |-> FALSE,
                 bytes |-> createPacket(<<STANDARD_CMD_SET_SPEED_OP,
                                          MathRound(v.x, STANDARD_SPEED_SCALE) % 256>>)]
    ELSE IF \/ ~isFinite(v)
            \/ Less(v, FTMS_DEFAULT_MIN_SPEED_KMH)
            \/ Greater(v, FTMS_DEFAULT_MAX_SPEED_KMH)
           THEN [threw |-> TRUE, bytes |-> << >>]
           ELSE [threw |-> FALSE,
                 bytes |-> <<FTMS_OP_SET_TARGET_SPEED,
                             MathRound(v.x, FTMS_SPEED_SCALE) % 256,
                             (MathRound(v.x, FTMS_SPEED_SCALE) \div 256) % 256>>]

\* setSpeed(v) on a connected manager of codec p whose writes succeed: the check of
\* ensureConnectedAndSend passes, sendCommand builds the payload and writes it
SetSpeed(p, v) ==
  /\ codec' = LET c == cmdSetSpeed(p, v)
               IN [protocolName |-> p, kmh |-> v,
                   res |-> IF c.threw THEN "speedOutOfRange" ELSE "ok",
                   written |-> c.bytes]
  /\ UNCHANGED <<m, calls, cws, cmds, lock, hist, sm, pm, th, et, packet, disc, ftms>>

NextSpeed ==
  \E p \in {"standard", "ftms"}, v \in SpeedInputs : SetSpeed(p, v)

SpecSpeed == Init /\ [][NextSpeed]_vars

\* ------------------------------------------------ the poll manager driven directly
MaxStarts == 2       \* start() calls
MaxStops == 2        \* stop() calls made by the owner
MaxWrites == 4       \* poll writes issued by one run
maxConsecutiveErrors == 3

cmdAskStats_nonEmpty(p) == createPacket(<<STANDARD_CMD_ASK_STATS_BODY>>)

cmdAskStats(p) ==
  IF p = "standard" THEN createPacket(<<STANDARD_CMD_ASK_STATS_BODY>>) ELSE << >>

isPolling(p) == p.pollTimer # 0

\* a stop() that forgets the timer without clearing it or bumping the token
stop_forgetsOnly(p) == [p EXCEPT !.pollTimer = 0]

\* stop(): clears the interval if one is held, bumps the session token.  The
\* calls explored keep sessionId far below Number.MAX_SAFE_INTEGER, where the
\* modulo is the identity.
stop(p) ==
  [p EXCEPT !.timers = @ \ {p.pollTimer}, !.pollTimer = 0, !.sessionId = @ + 1]

\* start(session, protocol): stop(), capture the token, arm the interval
start(p, proto) ==
  LET q == stop(p)
      r == Len(q.runs) + 1
  IN [q EXCEPT !.runs = Append(@, [token |-> q.sessionId, protocol |-> proto,
                                    consecutiveErrors |-> 0, issued |-> 0,
                                    pending |-> 0, resolved |-> 0,
                                    errors |-> 0]),
               !.pollTimer = r, !.timers = @ \cup {r}]

\* the interval callback of run r (alive = both weak references still resolve)
tick(p, r, alive) ==
  IF p.runs[r].token # p.sessionId THEN p
  ELSE IF ~alive THEN stop(p)
  ELSE IF Len(cmdAskStats(p.runs[r].protocol)) = 0 THEN p
  ELSE [p EXCEPT !.runs[r].issued = @ + 1, !.runs[r].pending = @ + 1]

\* the .then / .catch handlers of a poll write of run r (ok = the write resolved)
writeSettled(p, r, ok) ==
  LET q == [p EXCEPT !.runs[r].pending = @ - 1]
  IN IF ok THEN [q EXCEPT !.runs[r].consecutiveErrors = 0, !.runs[r].resolved = @ + 1]
     ELSE LET e == [q EXCEPT !.runs[r].consecutiveErrors = @ + 1,
                             !.runs[r].errors = @ + 1]
          IN IF e.runs[r].consecutiveErrors >= maxConsecutiveErrors
               THEN [stop(e) EXCEPT !.warned = @ + 1]
               ELSE e

PollFrame == UNCHANGED <<m, calls, cws, cmds, lock, hist, sm, codec, th, et, packet, disc, ftms>>

PollStart(proto) ==
  /\ Len(pm.runs) < MaxStarts
  /\ pm' = start(pm, proto)
  /\ PollFrame

PollStop ==
  /\ pm.stops < MaxStops
  /\ pm' = [stop(pm) EXCEPT !.stops = @ + 1]
  /\ PollFrame

\* an armed interval fires
PollTick(r, alive) ==
  /\ r \in pm.timers
  /\ pm.runs[r].issued < MaxWrites
  /\ pm' = tick(pm, r, alive)
  /\ PollFrame

\* a pending poll write settles: resolved, rejected or timed out
PollWriteSettle(r, ok) ==
  /\ r \in DOMAIN pm.runs /\ pm.runs[r].pending > 0
  /\ pm' = writeSettled(pm, r, ok)
  /\ PollFrame

NextPoll ==
  \/ \E proto \in {"standard", "ftms"} : PollStart(proto)
  \/ PollStop
  \/ \E r \in 1..MaxStarts, alive \in BOOLEAN : PollTick(r, alive)
  \/ \E r \in 1..MaxStarts, ok \in BOOLEAN : PollWriteSettle(r, ok)

SpecPoll == Init /\ [][NextPoll]_vars

\* ------------------------------------------- the manager's own poll manager
\* The manager polls through createPollManager(fn, options) with fn and options
\* as given at manager.ts:257-268; m.polling names the run that is armed.  The
\* completion handling is that of createPollManager above.

\* options.onError of the manager's poll manager: emitError(normalizeError(e))
onError_toErrorState(mm) == [emitError(mm) EXCEPT !.state = "error"]

onError(mm) == emitError(mm)

MgrPollFrame == UNCHANGED <<calls, cws, cmds, lock, hist, sm, codec, th, et, packet, disc, ftms>>

\* the armed interval fires: fn asks the run's codec for the ask-stats payload
\* (the standard codec's, since only standard sessions start a run) and writes it
MgrPollTick(c) ==
  /\ c # 0 /\ m.polling = c
  /\ pm.mgr[c].issued < MaxWrites
  /\ Len(cmdAskStats("standard")) # 0
  /\ pm' = [pm EXCEPT !.mgr[c].issued = @ + 1, !.mgr[c].pending = @ + 1]
  /\ UNCHANGED m
  /\ MgrPollFrame

\* a poll write of run c settles (ok = it resolved)
MgrPollSettle(c, ok) ==
  /\ pm.mgr[c].pending > 0
  /\ IF ok
       THEN /\ pm' = [pm EXCEPT !.mgr[c].pending = @ - 1,
                                !.mgr[c].consecutiveErrors = 0]
            /\ UNCHANGED m
       ELSE /\ pm' = [pm EXCEPT !.mgr[c].pending = @ - 1,
                                !.mgr[c].consecutiveErrors = @ + 1,
                                !.mgr[c].errors = @ + 1]
            /\ m' = IF pm.mgr[c].consecutiveErrors + 1 >= maxConsecutiveErrors
                      THEN [onError(m) EXCEPT !.polling = 0]
                      ELSE onError(m)
  /\ MgrPollFrame

\* lifecycle calls made without a signal, the polling they start, and a poll
\* manager started directly with the FTMS codec
NextPollMgr ==
  \/ \E c \in Calls : Connect(c, "none", TRUE)
  \/ \E c \in Calls : ConnectEnter(c)
  \/ \E c \in Calls, ok \in BOOLEAN : ConnectPreCleanSettle(c, ok)
  \/ \E c \in Calls : ConnectPreCleaned(c)
  \/ \E c \in Calls : ConnectStart(c)
  \/ \E c \in Calls, out \in {"session", "null", "fail"} : AdapterSettle(c, out)
  \/ \E c \in Calls, od \in BOOLEAN : AdapterReturned(c, od)
  \/ \E c \in Calls, out \in SessionTypes \cup {"noChars", "fail"} : CwsDiscover(c, out)
  \/ \E c \in Calls, ok \in BOOLEAN : CwsNotify(c, ok)
  \/ \E c \in Calls, ok \in BOOLEAN : CwsCpNotify(c, ok)
  \/ \E c \in Calls, ok \in BOOLEAN : CwsReqControl(c, ok)
  \/ \E c \in Calls, ok \in BOOLEAN : CwsCleanupSettle(c, ok)
  \/ \E c \in Calls : CwsSettled(c)
  \/ \E c \in Calls : CatchFinish(c)
  \/ \E c \in Calls : Reconnect(c, "none")
  \/ \E c \in Calls : ReconnectEnter(c)
  \/ \E c \in Calls : Disconnect(c)
  \/ \E c \in Calls : DisconnectEnter(c)
  \/ \E c \in Calls, ok \in BOOLEAN : DisconnectCleanSettle(c, ok)
  \/ \E c \in Calls : DisconnectFinish(c)
  \/ \E c \in Calls : MgrPollTick(c)
  \/ \E c \in Calls, ok \in BOOLEAN : MgrPollSettle(c, ok)
  \/ PollStart("ftms")
  \/ \E r \in 1..MaxStarts, alive \in BOOLEAN : PollTick(r, alive)

SpecPollMgr == Init /\ [][NextPollMgr]_vars

\* ------------------------------------------- the StandardProtocol builders
STANDARD_CMD_START_BODY == <<4, 1>>
STANDARD_CMD_STOP_BODY == <<4, 0>>
SpeedStep == 250     \* 0.025 km/h: spacing of the accepted speeds tried

\* the accepted range in steps of SpeedStep, with the values around its limits
\* and the rejected ones of SpeedInputs
PacketSpeeds ==
  SpeedInputs \cup
    {Finite(x) : x \in {y \in STANDARD_DEFAULT_MIN_SPEED_KMH..STANDARD_DEFAULT_MAX_SPEED_KMH :
                          y % SpeedStep = 0}}

cmdStart == createPacket(STANDARD_CMD_START_BODY)
cmdStop == createPacket(STANDARD_CMD_STOP_BODY)

PacketFrame == UNCHANGED <<m, calls, cws, cmds, lock, hist, sm, codec, pm, th, et, disc, ftms>>

CmdStart ==
  /\ packet' = [PacketInit EXCEPT !.cmd = "start", !.bytes = cmdStart]
  /\ PacketFrame

CmdStop ==
  /\ packet' = [PacketInit EXCEPT !.cmd = "stop", !.bytes = cmdStop]
  /\ PacketFrame

CmdAskStats ==
  /\ packet' = [PacketInit EXCEPT !.cmd = "askStats", !.bytes = cmdAskStats("standard")]
  /\ PacketFrame

CmdSetSpeed(v) ==
  /\ packet' = LET c == cmdSetSpeed("standard", v)
               IN [cmd |-> "setSpeed", kmh |-> v, threw |-> c.threw, bytes |-> c.bytes]
  /\ PacketFrame

NextPacket ==
  \/ CmdStart
  \/ CmdStop
  \/ CmdAskStats
  \/ \E v \in PacketSpeeds : CmdSetSpeed(v)

SpecPacket == Init /\ [][NextPacket]_vars

\* ------------------------------------------------------- discoverWalkingPad
\* An FTMS service (1826) with a treadmill-data characteristic (2acd) and a
\* control-point characteristic (2ad9), each with its property flags; a standard
\* service (fe00 / fff0) whose write and notify characteristics are usable or not.
\* A characteristic is named by its role in the device: "data", "cp", "stdWrite",
\* "stdNotify".
FtmsServices ==
  [uuid : {"ftms"}, dataNotify : BOOLEAN,
   write : BOOLEAN, writeWithoutResponse : BOOLEAN, indicate : BOOLEAN, notify : BOOLEAN]

StandardServices == [uuid : {"standard"}, write : BOOLEAN, notify : BOOLEAN]

ServiceLists ==
  {<<f>> : f \in FtmsServices} \cup {<<s>> : s \in StandardServices}
    \cup {<<f, s>> : f \in FtmsServices, s \in StandardServices}
    \cup {<<s, f>> : f \in FtmsServices, s \in StandardServices}

\* the body of the loop over the services, for one service
discoverService(r, sv) ==
  IF sv.uuid = "ftms"
    THEN [writeChar |-> IF sv.write \/ sv.writeWithoutResponse THEN "cp" ELSE r.writeChar,
          notifyChar |-> IF sv.dataNotify THEN "data" ELSE r.notifyChar,
          controlPointChar |-> IF sv.indicate THEN "cp" ELSE r.controlPointChar]
    ELSE IF r.writeChar = "none" \/ r.notifyChar = "none"
      THEN [r EXCEPT !.writeChar = IF sv.write THEN "stdWrite" ELSE @,
                     !.notifyChar = IF sv.notify THEN "stdNotify" ELSE @]
      ELSE r

RECURSIVE discoverServices(_, _)
discoverServices(r, svs) ==
  IF svs = << >> THEN r ELSE discoverServices(discoverService(r, Head(svs)), Tail(svs))

discoverWalkingPad(svs) ==
  LET r == discoverServices(NoChars, svs)
  IN [services |-> svs, result |-> r,
      threw |-> r.writeChar = "none" \/ r.notifyChar = "none"]

Discover(svs) ==
  /\ disc' = discoverWalkingPad(svs)
  /\ UNCHANGED <<m, calls, cws, cmds, lock, hist, sm, codec, pm, th, et, packet, ftms>>

NextDiscover == \E svs \in ServiceLists : Discover(svs)

SpecDiscover == Init /\ [][NextDiscover]_vars

\* ------------------------------------------------------ FTMSProtocol.parseStatus
\* A treadmill-data packet is given by what parseStatus reads of it: the set of
\* flag bits set in its first two bytes, its length in bytes, and the 16-bit
\* little-endian value at offset 2 (the speed in 1/100 km/h) when it is that long.
FTMS_MIN_PACKET_LENGTH == 2
FTMS_MIN_SPEED_LENGTH == 4
MAX_SPEED_KMH == 25
MaxPacketLen == 13   \* bytes in a packet

\* FTMS_FLAG_AVERAGE_SPEED = 1 << 1, ..., FTMS_FLAG_ELAPSED_TIME = 1 << 10: the bit
\* of each optional field, in the order parseStatus tests them
FtmsFlagBits == 1..10

\* bytes taken by the field of each flag bit
FtmsFieldLength ==
  [b \in FtmsFlagBits |->
     CASE b = 1 -> 2 [] b = 2 -> 3 [] b = 3 -> 4 [] b = 4 -> 2 [] b = 5 -> 1
       [] b = 6 -> 1 [] b = 7 -> 5 [] b = 8 -> 1 [] b = 9 -> 1 [] b = 10 -> 2]

FtmsFlagSets == (SUBSET {1, 2, 10}) \cup {{b} : b \in 3..9}

FtmsPackets ==
  [flags : FtmsFlagSets, length : 0..MaxPacketLen,
   speed : {0, 1, 100, MAX_SPEED_KMH * FTMS_SPEED_SCALE + 1, 65535}]

\* clampSpeed(raw / FTMS_SPEED_SCALE), kept in units of 1/FTMS_SPEED_SCALE km/h
clampSpeed(raw) ==
  IF raw < 0 THEN 0
  ELSE IF raw > MAX_SPEED_KMH * FTMS_SPEED_SCALE THEN MAX_SPEED_KMH * FTMS_SPEED_SCALE
  ELSE raw

\* the chain of flag tests from bit b on: TRUE when some field whose flag is set
\* does not fit in the packet (parseStatus returns there)
RECURSIVE truncated(_, _, _)
truncated(p, b, offset) ==
  IF b > 10 THEN FALSE
  ELSE IF b \in p.flags
    THEN IF p.length < offset + FtmsFieldLength[b] THEN TRUE
         ELSE truncated(p, b + 1, offset + FtmsFieldLength[b])
    ELSE truncated(p, b + 1, offset)

\* where parseStatus returns: before the derivation of state, isRunning and mode
\* when the packet is too short or truncated, after it otherwise
deriveFromSpeed(p, st) ==
  IF truncated(p, 1, IF p.length >= FTMS_MIN_SPEED_LENGTH
                       THEN FTMS_MIN_PACKET_LENGTH + 2 ELSE FTMS_MIN_PACKET_LENGTH)
    THEN st
    ELSE [st EXCEPT !.state = IF st.speed > 0 THEN 1 ELSE 0,
                    !.isRunning = st.speed > 0,
                    !.mode = IF st.speed > 0 THEN 1 ELSE 0]

parseStatus(p) ==
  IF p.length < FTMS_MIN_PACKET_LENGTH THEN DefaultState
  ELSE deriveFromSpeed(p, [DefaultState EXCEPT !.speed =
                             IF p.length >= FTMS_MIN_SPEED_LENGTH
                               THEN clampSpeed(p.speed) ELSE 0])

ParseStatus(p) ==
  /\ ftms' = [packet |-> p, state |-> parseStatus(p), parsed |-> TRUE]
  /\ UNCHANGED <<m, calls, cws, cmds, lock, hist, sm, codec, pm, th, et, packet, disc>>

NextFtms == \E p \in FtmsPackets : ParseStatus(p)

SpecFtms == Init /\ [][NextFtms]_vars

\* ------------------------------------------------------------ throttleAsync
MaxTime == 10        \* the clock stops here
MaxThrottled == 4    \* calls of the throttled function

ThrottleFrame == UNCHANGED <<m, calls, cws, cmds, lock, hist, sm, codec, pm, et, packet, disc, ftms>>

\* the throttled function is called: a leading invocation, or the call becomes
\* the pending one (superseding the one that was) and the timer is armed if none is
throttled(t) ==
  LET id == Len(t.calls) + 1
      timeSinceLastCall == t.now - t.lastCallTime
      c == [t EXCEPT !.calls = Append(@, t.now)]
  IN IF timeSinceLastCall >= intervalMs
       THEN [c EXCEPT !.lastCallTime = t.now,
                      !.invocations = Append(@, [call |-> id, at |-> t.now])]
       ELSE IF ~t.timeoutId
         THEN [c EXCEPT !.pendingCall = id, !.timeoutId = TRUE,
                        !.due = t.now + (intervalMs - timeSinceLastCall)]
         ELSE [c EXCEPT !.pendingCall = id]

\* the setTimeout callback: the trailing invocation with the pending arguments
timerFired(t) ==
  IF t.pendingCall # 0
    THEN [t EXCEPT !.timeoutId = FALSE, !.pendingCall = 0, !.lastCallTime = t.now,
                   !.invocations = Append(@, [call |-> t.pendingCall, at |-> t.now])]
    ELSE [t EXCEPT !.timeoutId = FALSE]

ThrottledCall ==
  /\ Len(th.calls) < MaxThrottled
  /\ th' = throttled(th)
  /\ ThrottleFrame

\* the timer fires, at its due time or later
ThrottleTimer ==
  /\ th.timeoutId /\ th.now >= th.due
  /\ th' = timerFired(th)
  /\ ThrottleFrame

\* a millisecond passes
ClockTick ==
  /\ th.now < MaxTime
  /\ th' = [th EXCEPT !.now = @ + 1]
  /\ ThrottleFrame

NextThrottle ==
  \/ ThrottledCall
  \/ ThrottleTimer
  \/ ClockTick

SpecThrottle == Init /\ [][NextThrottle]_vars

\* ------------------------------------------------------------ toEventTarget
EventTargetFrame == UNCHANGED <<m, calls, cws, cmds, lock, hist, sm, codec, pm, th, packet, disc, ftms>>

\* target.addEventListener(type, listener, options)
addEventListener(e, type, listener, capture) ==
  IF listener = NullListener THEN e
  ELSE LET listeners == e.trackedListeners[type]
           first == listeners = {}
       IN [e EXCEPT !.emitter[type] = IF first THEN @ + 1 ELSE @,
                    !.subscriptions[type] = IF first THEN TRUE ELSE @,
                    !.trackedListeners[type] = @ \cup {listener},
                    !.target[type] = @ \cup {<<listener, capture>>}]

\* target.removeEventListener(type, listener, options)
removeEventListener(e, type, listener, capture) ==
  IF listener = NullListener THEN e
  ELSE LET tracked == listener \in e.trackedListeners[type]
           last == tracked /\ e.trackedListeners[type] = {listener}
           unsubscribe == last /\ e.subscriptions[type]
       IN [e EXCEPT !.target[type] = @ \ {<<listener, capture>>},
                    !.trackedListeners[type] = @ \ {listener},
                    !.subscriptions[type] = IF unsubscribe THEN FALSE ELSE @,
                    !.emitter[type] = IF unsubscribe THEN @ - 1 ELSE @]

AddEventListener(type, listener, capture) ==
  /\ et' = addEventListener(et, type, listener, capture)
  /\ EventTargetFrame

RemoveEventListener(type, listener, capture) ==
  /\ et' = removeEventListener(et, type, listener, capture)
  /\ EventTargetFrame

NextEventTarget ==
  \E type \in EventChannels, listener \in EventListeners \cup {NullListener},
     capture \in BOOLEAN :
    \/ AddEventListener(type, listener, capture)
    \/ RemoveEventListener(type, listener, capture)

SpecEventTarget == Init /\ [][NextEventTarget]_vars

\* ----------------------------------------- polling and commands on one session
\* one connect() without a signal, the polling it starts, and commands
NextPollCmd ==
  \/ Connect(1, "none", TRUE)
  \/ \E c \in Calls : ConnectEnter(c)
  \/ \E c \in Calls, out \in {"session", "null", "fail"} : AdapterSettle(c, out)
  \/ \E c \in Calls, od \in BOOLEAN : AdapterReturned(c, od)
  \/ \E c \in Calls, out \in SessionTypes \cup {"noChars", "fail"} : CwsDiscover(c, out)
  \/ \E c \in Calls, ok \in BOOLEAN : CwsNotify(c, ok)
  \/ \E c \in Calls, ok \in BOOLEAN : CwsCpNotify(c, ok)
  \/ \E c \in Calls, ok \in BOOLEAN : CwsReqControl(c, ok)
  \/ \E c \in Calls, ok \in BOOLEAN : CwsCleanupSettle(c, ok)
  \/ \E c \in Calls : CwsSettled(c)
  \/ \E c \in Calls : CatchFinish(c)
  \/ \E k \in Cmds : Command(k)
  \/ \E k \in Cmds, valid \in BOOLEAN : CommandEnter(k, valid)
  \/ \E k \in Cmds, ok \in BOOLEAN : CommandSettle(k, ok)
  \/ \E c \in Calls : MgrPollTick(c)
  \/ \E c \in Calls, ok \in BOOLEAN : MgrPollSettle(c, ok)

SpecPollCmd == Init /\ [][NextPollCmd]_vars

\* ================================================================ claims
\* the transition table as the specification states it (section 4.9)
SpecTransitions ==
  { <<"disconnected", "connecting">>, <<"connecting", "connected">>,
    <<"connecting", "error">>, <<"connecting", "disconnected">>,
    <<"connected", "disconnected">>, <<"error", "disconnected">>,
    <<"error", "connecting">> }

IsPrefix(a, b) == Len(a) <= Len(b) /\ \A i \in 1..Len(a) : a[i] = b[i]

\* a lifecycle call is between acquiring and releasing the connection mutex
InSection(c) == calls[c].pc \notin {"idle", "waitLock", "done"}

\* C1: connect, reconnect, disconnect and the peer-disconnect cleanup are mutually
\* exclusive and first-come-first-served: every call that entered the section
\* before the latest one has left it, at most one call is inside, and the calls
\* enter in the order in which they requested the mutex.
C1_ConnectionMutexFifo ==
  /\ \A i \in 1..(Len(hist.enter) - 1) : calls[hist.enter[i]].pc = "done"
  /\ Cardinality({c \in Calls : InSection(c)}) <= 1
  /\ IsPrefix(hist.enter, hist.req)

C1_Witness ==
  \E c, d \in Calls : InSection(c) /\ calls[d].pc = "waitLock"

\* the manager holds nothing of the attempt made by call c
HoldsNothingOf(c) ==
  /\ m.session # c /\ m.polling # c
  /\ m.stopNotify # c /\ m.stopControlPointNotify # c /\ m.stopDisconnectListener # c
  /\ c \notin (m.notifyListeners \cup m.cpListeners \cup m.disconnectListeners)

\* no lifecycle call was made after call c
LatestCall(c) == NextCallId = c + 1

\* C2: once a connect/reconnect that was aborted while it held the mutex has
\* rejected, and until the next lifecycle call, the state is disconnected and the
\* manager holds nothing of the aborted attempt.
C2_AbortLeavesNothing ==
  \A c \in Calls :
    (calls[c].pc = "done" /\ calls[c].err = "abort" /\ LatestCall(c))
      => (m.state = "disconnected" /\ HoldsNothingOf(c))

NotConnectedAt(r) ==
  r.state # "connected" \/ r.session = 0 \/ r.protocolName = "none"

Wrote(k) == \E j \in DOMAIN hist.writes : hist.writes[j].cmd = k

\* C3 as claimed: a command CALLED while the state is not connected, or while a
\* handle is absent, rejects with NotConnectedError and writes nothing.
C3_CalledWhileNotConnected ==
  \A i \in DOMAIN hist.cmdReq :
    NotConnectedAt(hist.cmdReq[i])
      => (cmds[hist.cmdReq[i].cmd].res \in {"pending", "notConnected"}
          /\ ~Wrote(hist.cmdReq[i].cmd))

\* C3 as amended: a command that finds, when it makes its check under the command
\* mutex, the state not connected or a handle absent rejects with
\* NotConnectedError and writes nothing.
C3_CheckedWhileNotConnected ==
  \A i \in DOMAIN hist.cmdEnter :
    NotConnectedAt(hist.cmdEnter[i])
      => (cmds[hist.cmdEnter[i].cmd].res = "notConnected"
          /\ cmds[hist.cmdEnter[i].cmd].pc = "done"
          /\ ~Wrote(hist.cmdEnter[i].cmd))

C3_Witness ==
  \E i \in DOMAIN hist.cmdEnter :
    /\ hist.cmdEnter[i].state = "connecting" /\ hist.cmdEnter[i].session # 0
    /\ cmds[hist.cmdEnter[i].cmd].res = "notConnected"

\* C4: commands are serialised by the command mutex: every command that made its
\* check before the latest one has settled, at most one command is between its
\* check and the settlement of its write, commands get the mutex in call order,
\* and the writes reach the characteristic in call order.
C4_CommandMutexFifo ==
  /\ \A i \in 1..(Len(hist.cmdEnter) - 1) : cmds[hist.cmdEnter[i].cmd].pc = "done"
  /\ Cardinality({k \in Cmds : cmds[k].pc = "writing"}) <= 1
  /\ IsPrefix([i \in DOMAIN hist.cmdEnter |-> hist.cmdEnter[i].cmd],
              [i \in DOMAIN hist.cmdReq |-> hist.cmdReq[i].cmd])
  /\ \A i, j \in DOMAIN hist.writes :
       i < j => \E a, b \in DOMAIN hist.cmdReq :
                  /\ a < b
                  /\ hist.cmdReq[a].cmd = hist.writes[i].cmd
                  /\ hist.cmdReq[b].cmd = hist.writes[j].cmd

C4_Witness ==
  \E j, k \in Cmds : cmds[j].pc = "writing" /\ cmds[k].pc = "waitLock"

\* C5: a command resolves successfully only if no connection state change
\* happened between its pre-write check and the settlement of its write.
C5_SuccessOnlyIfUnchanged ==
  \A k \in Cmds : cmds[k].res = "ok" => ~cmds[k].changed

\* C6: once a connect() that failed for a reason other than abort has rejected,
\* the connection state is error.
C6_ConnectFailureLeavesError ==
  \A c \in Calls :
    (calls[c].kind = "connect" /\ calls[c].pc = "done" /\ calls[c].res = "error"
       /\ LatestCall(c))
      => m.state = "error"

\* C7: when connect/reconnect has rejected (failure or abort) after the adapter
\* returned a connected session, that session's disconnect has been invoked.
C7_FailureDisconnectsSession ==
  \A c \in Calls :
    (calls[c].pc = "done" /\ calls[c].res \in {"aborted", "error"}
       /\ calls[c].got = "session")
      => c \in m.disconnectCalled

\* C8: the session handle is nulled or replaced only after the disconnect thunk
\* of the session it held has been called.
C8_SessionDroppedOnlyAfterDisconnect ==
  [][ (m.session # 0 /\ m'.session # m.session)
        => m.session \in m.disconnectCalled ]_vars

\* C9: the connectionStateChange events are the true state sequence: each event
\* starts where the previous one ended (the first at disconnected), is a
\* transition of the table, ends at the state the manager is in, and the state
\* never changes without an event.
C9_EventsMatchState ==
  [][ /\ m'.events # m.events =>
           /\ m'.events.n = m.events.n + 1
           /\ m'.events.from = (IF m.events.n = 0 THEN "disconnected" ELSE m.events.to)
           /\ m'.events.from = m.state
           /\ <<m'.events.from, m'.events.to>> \in SpecTransitions
           /\ m'.state = m'.events.to
      /\ m'.events = m.events => m'.state = m.state ]_vars

C9_Witness == m.events.n >= 4 /\ m.state = "connected"

\* C10: transition(to) succeeds exactly for the pairs of the table; for any other
\* pair (to = the current state included) it throws, leaves the state unchanged
\* and invokes no observer.
C10_ExactlyTheTable ==
  [][ sm'.steps # sm.steps =>
        IF <<sm.state, sm'.to>> \in SpecTransitions
          THEN ~sm'.threw /\ sm'.state = sm'.to
          ELSE sm'.threw /\ sm'.state = sm.state /\ sm'.notified = << >> ]_vars

C10_Witness ==
  sm.threw /\ sm.to = sm.state /\ Len(sm.callbacks) > 0 /\ sm.state = "connected"

\* C11: every accepted transition invokes every observer registered at that moment
\* exactly once, in registration order, with the (from, to) of the transition,
\* whichever observers throw; the call does not throw and the state change stays.
\* (Observers return or throw; they do not call back into the machine.)
C11_EveryObserverOnce ==
  [][ (sm'.steps # sm.steps /\ canTransition(sm.state, sm'.to)) =>
        /\ ~sm'.threw
        /\ sm'.state = sm'.to
        /\ Len(sm'.notified) = Len(sm.callbacks)
        /\ \A o \in Range(sm.callbacks) :
             Cardinality({i \in DOMAIN sm'.notified : sm'.notified[i].obs = o}) = 1
        /\ \A i \in DOMAIN sm'.notified :
             sm'.notified[i] = [obs |-> sm.callbacks[i], from |-> sm.state, to |-> sm'.to] ]_vars

\* an accepted transition with two observers registered, both of which threw
C11_Witness ==
  /\ ~sm.threw /\ sm.steps > 0
  /\ Len(sm.callbacks) = 2 /\ sm.logged = 2 /\ Len(sm.notified) = 2

C13_AbortLeavesDisconnected ==
  [][ \A c \in Calls :
        (/\ calls[c].pc # "done" /\ calls'[c].pc = "done"
         /\ calls'[c].kind \in {"connect", "reconnect"}
         /\ calls'[c].res = "aborted"
         /\ \A d \in Calls \ {c} : calls[d].pc \in {"idle", "done"})
          => m'.state = "disconnected" ]_vars

\* C14: a connect() or reconnect() that fails for a reason other than abort
\* publishes one error on the error channel when it rejects.
C14_FailurePublishesError ==
  [][ \A c \in Calls :
        (/\ calls[c].pc # "done" /\ calls'[c].pc = "done"
         /\ calls'[c].kind \in {"connect", "reconnect"}
         /\ calls'[c].res = "error")
          => m'.errors = m.errors + 1 ]_vars

\* the manager holds no session, subscription, listener or poll timer
HoldsNothing ==
  /\ m.session = 0 /\ m.polling = 0
  /\ m.stopNotify = 0 /\ m.stopControlPointNotify = 0 /\ m.stopDisconnectListener = 0
  /\ m.notifyListeners = {} /\ m.cpListeners = {} /\ m.disconnectListeners = {}

\* C15: a peer disconnect reported while the state is connected leads (pending BLE
\* calls settling) to the cleanup having run under the mutex: polling stopped,
\* subscriptions torn down, session released, state disconnected.  A report made
\* while the state is not connected changes nothing.
C15_PeerDisconnectCleansUp ==
  /\ \A c \in Calls :
       (calls[c].kind = "peer" /\ calls[c].pc = "waitLock")
         ~> (calls[c].pc = "done" /\ calls[c].res = "ok"
             /\ m.state = "disconnected" /\ HoldsNothing)
  /\ [][ \A c \in Calls :
           (calls[c].kind = "none" /\ calls'[c].kind = "peer" /\ m.state # "connected")
             => (m' = m /\ lock' = lock /\ calls'[c].pc = "done") ]_vars

\* the cleanup scheduled by a peer disconnect ran and disconnected the session
C15_Witness ==
  \E c \in Calls :
    /\ calls[c].kind = "peer" /\ calls[c].pc = "done" /\ calls[c].res = "ok"
    /\ m.state = "disconnected" /\ m.disconnectCalled # {} /\ HoldsNothing

\* C16: a connect() that finds the state connected first tears the old session
\* down (poll timer stopped, listeners removed, the old session's disconnect
\* called, then state disconnected), only then moves to connecting and calls the
\* adapter, and ends in connected or error: the states seen are connected,
\* disconnected, connecting, then connected or error.
C16_ConnectWhileConnectedTearsDownFirst ==
  [][ \A c \in Calls : calls[c].kind = "connect" =>
        /\ (calls[c].pc = "waitLock" /\ calls'[c].pc # "waitLock"
               /\ calls[c].sig # "aborted" /\ m.state = "connected")
             => /\ calls'[c].pc \in {"preClean", "preCleaned"}
                /\ m'.state = "connected" /\ m'.events = m.events
                /\ m'.polling = 0
                /\ m'.notifyListeners = {} /\ m'.cpListeners = {}
                /\ m'.disconnectListeners = {}
                /\ m.session # 0 /\ m.session \in m'.disconnectCalled
        /\ (calls[c].pc = "preCleaned" /\ calls'[c].pc = "preDone")
             => /\ m'.state = "disconnected"
                /\ m'.events = [n |-> m.events.n + 1, from |-> "connected",
                                 to |-> "disconnected"]
        /\ (calls[c].pc = "preDone" /\ calls'[c].pc = "awaitAdapter")
             => /\ m.state = "disconnected" /\ HoldsNothing
                /\ m'.events = [n |-> m.events.n + 1, from |-> "disconnected",
                                 to |-> "connecting"]
        /\ (calls[c].pc # "done" /\ calls'[c].pc = "done"
               /\ calls'[c].res \in {"ok", "error"})
             => /\ m'.state \in {"connected", "error"}
                /\ m'.events.from = "connecting" /\ m'.events.to = m'.state ]_vars

C18_ReconnectFalse ==
  [][ \A c \in Calls : calls[c].kind = "reconnect" =>
        /\ (calls[c].pc = "waitLock" /\ calls'[c].pc # "waitLock"
               /\ calls[c].sig # "aborted"
               /\ m.state \notin {"connected", "connecting"} /\ ~m.adapterReconnect)
             => (calls'[c].pc = "done" /\ calls'[c].res = "false" /\ m' = m)
        /\ (calls[c].pc = "adapterReturned" /\ calls'[c].pc # "adapterReturned"
               /\ calls[c].sig # "aborted" /\ calls[c].got = "null")
             => /\ calls'[c].pc = "done" /\ calls'[c].res = "false"
                /\ m'.errors = m.errors
                /\ m'.state = "disconnected"
                /\ m'.session = 0 /\ m'.polling = 0
                /\ m'.stopNotify = 0 /\ m'.stopControlPointNotify = 0 ]_vars

\* a reconnect() whose adapter found no device resolved false
C18_Witness ==
  \E c \in Calls :
    /\ calls[c].kind = "reconnect" /\ calls[c].pc = "done" /\ calls[c].res = "false"
    /\ calls[c].got = "null" /\ m.state = "disconnected" /\ m.events.n >= 2

\* C19: no step of a command changes the connection (state, handles,
\* subscriptions, poll timer, events, lifecycle calls), and a command that rejects
\* (NotConnectedError, SpeedOutOfRangeError, write error or timeout) has released
\* the command mutex: the command queued behind it can run.
C19_FailingCommandChangesNothing ==
  [][ \A k \in Cmds : cmds'[k] # cmds[k] =>
        /\ m' = m /\ calls' = calls /\ cws' = cws
        /\ (cmds'[k].pc = "done"
               /\ cmds'[k].res \in {"notConnected", "speedOutOfRange", "writeError"})
             => /\ k \in lock'.cmdResolved
                /\ \A j \in Cmds :
                     (cmds[j].pc = "waitLock" /\ cmds[j].prev = k)
                       => cmds'[j].prev \in lock'.cmdResolved ]_vars

\* a command's write failed on a connected manager and the command queued behind
\* it is writing
C19_Witness ==
  \E j, k \in Cmds :
    /\ cmds[k].pc = "done" /\ cmds[k].res = "writeError"
    /\ cmds[j].pc = "writing" /\ cmds[j].prev = k
    /\ m.state = "connected"

\* C20: setSpeed(v) on a connected manager of either codec writes to the device
\* exactly when v is finite and 0.5 <= v <= 6.0 (both limits accepted); for any
\* other v it rejects with SpeedOutOfRangeError and no byte is written.
C20_SetSpeedRange ==
  codec.res # "none" =>
    LET inRange == /\ codec.kmh.kind = "finite"
                   /\ 5 * (KmhUnit \div 10) <= codec.kmh.x
                   /\ codec.kmh.x <= 6 * KmhUnit
    IN /\ inRange => (codec.res = "ok" /\ codec.written # << >>)
       /\ ~inRange => (codec.res = "speedOutOfRange" /\ codec.written = << >>)

\* setSpeed(0.5) was written by the standard codec
C20_Witness ==
  /\ codec.protocolName = "standard" /\ codec.res = "ok"
  /\ codec.kmh = Finite(5 * (KmhUnit \div 10))
  /\ Len(codec.written) = 6 /\ codec.written[4] = 5

\* C21: every start(), stop() or setSpeed() call eventually settles even if its
\* BLE write never completes: the write is abandoned at its deadline, the command
\* mutex is released, and every command queued behind it gets its turn.
C21_CommandsSettle ==
  \A k \in Cmds :
    (cmds[k].pc \in {"waitLock", "writing"})
      ~> (cmds[k].pc = "done" /\ k \in lock.cmdResolved)

\* a write was abandoned at its deadline and the command queued behind it ran
C21_Witness ==
  \E j, k \in Cmds :
    /\ j < k /\ cmds[j].pc = "done" /\ cmds[j].res = "timeout"
    /\ cmds[k].pc = "done" /\ cmds[k].res = "timeout"
    /\ hist.cmdReq[k].state = "connected" /\ Len(hist.cmdEnter) = 2

\* the operations that have not settled, and those of them that wait on a mutex
PendingCalls == {c \in Calls : calls[c].pc \notin {"idle", "done"}}
PendingCmds  == {k \in Cmds : cmds[k].pc \notin {"idle", "done"}}
CallBlocked(c) == calls[c].pc = "waitLock" /\ calls[c].prev \notin lock.connResolved
CmdBlocked(k)  == cmds[k].pc = "waitLock" /\ cmds[k].prev \notin lock.cmdResolved

Quiescent ==
  /\ \A c \in Calls : calls[c].pc \in {"idle", "done"}
  /\ \A c \in Calls : cws[c].pc \in {"none", "done", "failed"}

\* C23: getSessionInfo() returns session info exactly when the manager is
\* connected: non-null if getConnectionState() is connected, null if it is
\* disconnected, connecting or error.  Stated for the states in which every
\* lifecycle call made so far has settled.
C23_SessionInfoIffConnected ==
  Quiescent => ((getSessionInfo(m) # NoInfo) <=> (m.state = "connected"))

\* C24: with max-consecutive-errors N and every poll write failing, the poll
\* manager invokes onError exactly N times in total and is then stopped (no
\* interval armed, no later tick writes), whatever the write latency is relative
\* to the poll interval; a successful write resets the consecutive-error count
\* to zero.
C24_ErrorBudget ==
  /\ [](\A r \in DOMAIN pm.runs :
          pm.runs[r].resolved = 0 => pm.runs[r].errors <= maxConsecutiveErrors)
  /\ [](\A r \in DOMAIN pm.runs :
          (pm.runs[r].resolved = 0 /\ pm.runs[r].errors >= maxConsecutiveErrors)
            => (r \notin pm.timers /\ pm.pollTimer # r))
  /\ [][ \A r \in DOMAIN pm.runs :
           (pm'.runs[r].issued > pm.runs[r].issued)
             => pm.runs[r].consecutiveErrors < maxConsecutiveErrors ]_vars
  /\ [][ \A r \in DOMAIN pm.runs :
           (pm'.runs[r].resolved > pm.runs[r].resolved)
             => pm'.runs[r].consecutiveErrors = 0 ]_vars

\* C25: after any sequence of start() and stop() calls at most one poll run is
\* live, and only ticks of the live run issue writes: once stop() has been called
\* or start() has superseded a run, no tick of that run writes, and a stop() on a
\* stopped poll manager has no further effect on polling.
C25_OneLiveRun ==
  /\ [](/\ Cardinality(pm.timers) <= 1
        /\ isPolling(pm) <=> pm.timers # {}
        /\ isPolling(pm) => (pm.timers = {pm.pollTimer}
                             /\ pm.runs[pm.pollTimer].token = pm.sessionId))
  /\ [][ \A r \in DOMAIN pm.runs :
           (pm'.runs[r].issued > pm.runs[r].issued)
             => (pm.pollTimer = r /\ pm.runs[r].token = pm.sessionId) ]_vars
  /\ [][ (pm'.stops > pm.stops /\ ~isPolling(pm))
           => (~isPolling(pm') /\ pm'.timers = {} /\ pm'.runs = pm.runs) ]_vars

\* a second start() superseded a run that had written, the new run wrote, and
\* stop() was then called twice
C25_Witness ==
  /\ Len(pm.runs) = 2 /\ pm.runs[1].issued > 0 /\ pm.runs[2].issued > 0
  /\ pm.stops = 2 /\ ~isPolling(pm) /\ pm.warned = 0

\* C26: a failing poll write never rejects into the application and never changes
\* the connection state: each failure is published once through emitError (the
\* error channel, or the logger when nobody listens), and when the error budget
\* is exhausted polling stops while the state stays as it was (connected).
C26_PollFailureOnlyPublishes ==
  [][ \A c \in Calls :
        (pm'.mgr[c].errors > pm.mgr[c].errors)
          => /\ pm'.mgr[c].errors = pm.mgr[c].errors + 1
             /\ m'.errors = m.errors + 1
             /\ m'.state = m.state /\ m'.events = m.events
             /\ [m' EXCEPT !.errors = m.errors, !.polling = m.polling] = m
             /\ calls' = calls /\ cmds' = cmds /\ lock' = lock
             /\ (pm'.mgr[c].consecutiveErrors >= maxConsecutiveErrors
                   => m'.polling = 0)
             /\ (pm'.mgr[c].consecutiveErrors < maxConsecutiveErrors
                   => m'.polling = m.polling) ]_vars

\* three poll writes in a row failed: polling has stopped, the manager is still
\* connected to the same session and three errors were published
C26_Witness ==
  \E c \in Calls :
    /\ pm.mgr[c].errors = maxConsecutiveErrors /\ pm.mgr[c].pending = 0
    /\ m.state = "connected" /\ m.session = c /\ m.polling = 0
    /\ m.errors = maxConsecutiveErrors

\* C27: no ask-stats write is ever issued for an FTMS session: connect() and
\* reconnect() start the poll manager only when the detected codec is standard
\* (a run is armed only by a connectWithSession whose session is a standard one,
\* and only the armed run writes), and a poll tick whose codec returns an empty ask-stats payload
\* performs no write and records no error.
C27_NoPollingForFtms ==
  /\ [][ \A c \in Calls :
           (m'.polling = c /\ m.polling # c)
             => (cws[c].stype # "none" /\ detectProtocol(cws[c].stype) = "standard") ]_vars
  /\ [][ \A c \in Calls :
           (pm'.mgr[c].issued > pm.mgr[c].issued) => m.polling = c ]_vars
  /\ [](\A r \in DOMAIN pm.runs :
          pm.runs[r].protocol = "ftms"
            => (pm.runs[r].issued = 0 /\ pm.runs[r].pending = 0
                /\ pm.runs[r].errors = 0 /\ pm.runs[r].consecutiveErrors = 0))

\* the manager is connected to an FTMS session and polls nothing, and a poll
\* manager started with the FTMS codec is armed and has written nothing
C27_Witness ==
  /\ m.state = "connected" /\ m.protocolName = "ftms" /\ m.polling = 0
  /\ \A c \in Calls : pm.mgr[c].issued = 0
  /\ isPolling(pm) /\ pm.runs[pm.pollTimer].protocol = "ftms"
  /\ pm.runs[pm.pollTimer].issued = 0

\* C28: state events are emitted only while the manager holds the notification
\* subscription of its current session: once disconnect() or any other cleanup
\* has completed, a value change on the former notify characteristic produces no
\* state event.
C28_StateEventsOnlyWhileSubscribed ==
  hist.stateEvent # NoStateEvent
    => /\ hist.stateEvent.session = hist.stateEvent.sess
       /\ hist.stateEvent.stopNotify = hist.stateEvent.sess
       /\ hist.stateEvent.state \in {"connecting", "connected"}

\* C29: for a function throttled with interval T, any burst of calls made within
\* a window of length T causes at most two invocations of the wrapped function
\* (one leading, at most one trailing).  A burst is taken to be calls made less
\* than T apart from first to last.
C29_BurstInvokesAtMostTwice ==
  \A w \in intervalMs..MaxTime :
    Cardinality({i \in DOMAIN th.invocations :
                   th.calls[th.invocations[i].call] \in w..(w + intervalMs - 1)}) <= 2

\* C30: a throttled function never invokes the wrapped function more than once
\* per intervalMs: whatever the timing of calls and of timer firings (a timer may
\* fire at or after its due time), two successive invocations are at least
\* intervalMs apart.
C30_InvocationsSpaced ==
  \A i \in DOMAIN th.invocations :
    i > 1 => th.invocations[i].at - th.invocations[i - 1].at >= intervalMs

\* C31: last call wins in the throttle: once no call is pending and no timer is
\* armed, the most recent invocation of the wrapped function carries the
\* arguments of the most recent call, and an earlier call's arguments are never
\* applied after a later call's.
C31_LastCallWins ==
  /\ (th.pendingCall = 0 /\ ~th.timeoutId /\ th.calls # << >>) =>
       /\ th.invocations # << >>
       /\ th.invocations[Len(th.invocations)].call = Len(th.calls)
  /\ \A i, j \in DOMAIN th.invocations :
       i < j => th.invocations[i].call < th.invocations[j].call

\* C32: after any sequence of addEventListener / removeEventListener calls the
\* adapter is subscribed to the upstream emitter for a channel exactly when at
\* least one listener is registered on the adapter for that channel, and it
\* never holds more than one upstream subscription per channel.
C32_SubscribedIffListening ==
  \A t \in EventChannels :
    /\ et.emitter[t] <= 1
    /\ (et.emitter[t] = 1) <=> (et.target[t] # {})

\* C33: every packet produced by a standard-codec builder (start, stop,
\* ask-stats, set-speed for every accepted speed) of length n has
\* bytes[0] = 0xF7, bytes[1] = 0xA2, bytes[n-1] = 0xFD and bytes[n-2] equal to the
\* sum of the bytes from index 1 up to the last body byte, mod 256
\* (sequences are indexed from 1 here).
C33_PacketFraming ==
  (packet.cmd # "none" /\ ~packet.threw) =>
    LET b == packet.bytes
        n == Len(b)
    IN /\ n >= 5
       /\ \A i \in 1..n : b[i] \in 0..255
       /\ b[1] = 247 /\ b[2] = 162 /\ b[n] = 253
       /\ b[n - 1] = Sum(SubSeq(b, 2, n - 2)) % 256

C33_Witness ==
  /\ packet.cmd = "setSpeed" /\ ~packet.threw
  /\ packet.kmh = Finite(3 * KmhUnit + KmhUnit \div 2)
  /\ packet.bytes = <<247, 162, 3, 35, 200, 253>>

\* C34: the state becomes connected only after setup is complete for that
\* session: notifications on the notify characteristic were enabled successfully
\* and, for an FTMS session whose control point was discovered, control-point
\* indications were enabled and the request-control write completed; for every
\* transition to connected, by connect() and by reconnect().  The first conjunct
\* is the transition itself, the other two say how a connectWithSession reaches
\* the steps the first one relies on.
C34_ConnectedAfterSetup ==
  /\ [][(m'.state = "connected" /\ m.state # "connected") =>
          \E c \in Calls :
            /\ calls[c].kind \in {"connect", "reconnect"}
            /\ cws'[c].pc = "done"
            /\ IF cws[c].stype = "ftmsCP"
                 THEN cws[c].pc = "reqControl"
                 ELSE /\ cws[c].pc = "notify" /\ cws[c].stype \in SessionTypes
                      /\ m'.stopNotify = c /\ c \in m'.notifyListeners]_vars
  /\ [][\A c \in Calls :
          (cws'[c].pc = "reqControl" /\ cws[c].pc # "reqControl") =>
            /\ cws[c].pc = "cpNotify"
            /\ m'.stopControlPointNotify = c /\ c \in m'.cpListeners]_vars
  /\ [][\A c \in Calls :
          (cws'[c].pc = "cpNotify" /\ cws[c].pc # "cpNotify") =>
            /\ cws[c].pc = "notify"
            /\ m'.stopNotify = c /\ c \in m'.notifyListeners]_vars

C34_Witness ==
  \E c \in Calls :
    /\ calls[c].kind = "reconnect"
    /\ m.state = "connected" /\ m.session = c /\ m.protocolName = "ftms"
    /\ m.stopNotify = c /\ m.stopControlPointNotify = c

\* C35: during discovery of an FTMS service, a control-point characteristic that
\* supports write or write-without-response is assigned the write role and is
\* also recorded as the session's control point, for every combination of its
\* indicate / notify flags; it is the control-point notify target only if it
\* additionally supports indicate.  (Stated for a device whose only service is
\* the FTMS one, so that no other service takes a role.)
C35_WritableControlPointRecorded ==
  (Len(disc.services) = 1 /\ disc.services[1].uuid = "ftms" /\ ~disc.threw) =>
    LET cp == disc.services[1]
    IN /\ (cp.write \/ cp.writeWithoutResponse) =>
            (disc.result.writeChar = "cp" /\ disc.result.controlPointChar = "cp")
       /\ ~cp.indicate => disc.result.controlPointChar # "cp"

\* C36: for every byte sequence of every length and every flags word, the state
\* returned by the FTMS parseStatus has isRunning = (speed > 0) and
\* state = mode = (1 if speed > 0, else 0).
C36_DerivedFromSpeed ==
  ftms.parsed =>
    /\ ftms.state.isRunning = (ftms.state.speed > 0)
    /\ ftms.state.state = (IF ftms.state.speed > 0 THEN 1 ELSE 0)
    /\ ftms.state.mode = ftms.state.state

\* C37: the state becomes connected, and the session, codec and subscription
\* handles are assigned, only by a connect() or reconnect() call that is still in
\* progress and holds the connection mutex: a call that has already settled never
\* later causes a transition to connected, assigns a handle or starts polling.
\* A step that changes cws[c] is a step of call c's connectWithSession.
C37_OnlyCallsInProgressAssign ==
  [][\A c \in Calls :
       (/\ cws'[c] # cws[c]
        /\ \/ m'.state = "connected" /\ m.state # "connected"
           \/ m'.session # m.session /\ m'.session # 0
           \/ m'.protocolName # m.protocolName /\ m'.protocolName # "none"
           \/ m'.stopNotify # m.stopNotify /\ m'.stopNotify # 0
           \/ m'.stopControlPointNotify # m.stopControlPointNotify
                /\ m'.stopControlPointNotify # 0
           \/ m'.stopDisconnectListener # m.stopDisconnectListener
                /\ m'.stopDisconnectListener # 0
           \/ m'.polling # m.polling /\ m'.polling # 0)
         => (calls[c].kind \in {"connect", "reconnect"} /\ InSection(c))]_vars

\* C38: once a poll run has been stopped or superseded by a new start(), the
\* later settlement of a write that run had in flight has no effect: it does not
\* invoke onError, it does not stop the newer run, and it does not change the
\* newer run's consecutive-error count.  A step that lowers runs[r].pending is the
\* settlement of a write of run r; the run is stale when its token is no longer
\* the session id.
C38_StaleSettlementIsInert ==
  [][\A r \in DOMAIN pm.runs :
       (pm'.runs[r].pending < pm.runs[r].pending /\ pm.runs[r].token # pm.sessionId)
         => /\ pm'.runs[r].errors = pm.runs[r].errors
            /\ pm'.pollTimer = pm.pollTimer /\ pm'.timers = pm.timers
            /\ pm'.sessionId = pm.sessionId
            /\ \A q \in DOMAIN pm.runs : q # r => pm'.runs[q] = pm.runs[q]]_vars

\* C39: every connect(), reconnect() and disconnect() call, and every
\* peer-disconnect cleanup, has released the connection mutex by the time it
\* settles, on every exit path, so a lifecycle call is never blocked by one that
\* has already finished; and whenever the mutex is free the state is not
\* connecting.  The mutex is free when the promise at the tail of the chain has
\* resolved (or nobody has asked for it yet).
C39_MutexReleasedOnSettle ==
  /\ \A c \in Calls :
       (calls[c].pc = "done" /\ c \in Range(hist.req)) => c \in lock.connResolved
  /\ \A c \in Calls : CallBlocked(c) => calls[calls[c].prev].pc # "done"
  /\ (lock.conn = 0 \/ lock.conn \in lock.connResolved) => m.state # "connecting"

\* a call aborted inside the section has settled and the next call got the mutex
C39_Witness ==
  \E c, d \in Calls :
    /\ calls[c].pc = "done" /\ calls[c].res = "aborted" /\ calls[c].err = "abort"
    /\ c \in lock.connResolved
    /\ calls[d].prev = c /\ InSection(d)

\* C40: at most one outbound write is outstanding on a session's write
\* characteristic at any time: a poll's ask-stats write and a command's write are
\* never in flight simultaneously, and two poll writes of the same run are never
\* in flight simultaneously.
C40_OneWriteOutstanding ==
  \A c \in Calls :
    /\ \A k \in Cmds :
         ~(cmds[k].pc = "writing" /\ cmds[k].sess = c /\ pm.mgr[c].pending > 0)
    /\ pm.mgr[c].pending <= 1

====
